---- MODULE Spec2Model ----
(***************************************************************************)
(* A model of the ledger core of ebnrushd/ledger: the money-moving         *)
(* operations of core/transaction_processing.py and the account            *)
(* administration of core/account_management.py, run by concurrent         *)
(* callers against one PostgreSQL database (READ COMMITTED, row locks).    *)
(*                                                                         *)
(* The committed database is accounts / transactions / audit_log.  Each    *)
(* caller owns one connection: its uncommitted row versions, its pending   *)
(* audit rows and the row locks it holds live in proc[p] and locks until   *)
(* conn.commit() publishes them or conn.rollback() drops them.             *)
(***************************************************************************)
EXTENDS Integers, Sequences, FiniteSets, TLC

\* ---------------------------------------------------------------------------
\* Bounds of the model
\* ---------------------------------------------------------------------------
MaxRows == 3                 \* transaction rows in a table that is read, not written
MaxOps == 2            \* operations the callers start in one behaviour

Procs == {"p1", "p2"}        \* concurrent callers, one connection each
AccountIds == {1, 2}         \* account ids; an id not yet opened is a missing account
Amounts == {0, 1, 2}         \* amounts passed; 0 stands for every non-positive amount
Limits == {-1, 0, 1, 2}      \* limits passed; -1 stands for every negative limit
Openings == {0, 1, 2}        \* opening balances passed to open_account

\* ---------------------------------------------------------------------------
\* Program constants
\* ---------------------------------------------------------------------------
SUPPORTED_ACCOUNT_TYPES == {"checking", "savings", "credit"}
StatusNames == {"active", "frozen", "closed"}
NoAccount == 0                     \* NULL related_account_id / no row lock holder

VARIABLES
    accounts,       \* committed accounts table: id -> row
    transactions,   \* committed transactions table, in transaction_id order
    audit_log,      \* committed audit_log table, in log_id order
    locks,          \* row lock of each account: the holding caller or "free"
    proc,           \* per caller: position in its operation, arguments, locals,
                    \* uncommitted writes of its connection, last outcome
    nops            \* operations the callers may still start

vars == <<accounts, transactions, audit_log, locks, proc, nops>>

NoRow == [exists |-> FALSE, balance |-> 0, status_name |-> "active",
          overdraft_limit |-> 0, initial_balance |-> 0]

IdleProc == [pc |-> "idle", op |-> "none", account_id |-> 0, to_account_id |-> 0,
             amount |-> 0, arg |-> "", balance |-> 0, status_name |-> "",
             overdraft_limit |-> 0, to_status_name |-> "",
             dirty |-> {}, row |-> [a \in AccountIds |-> 0],
             pending_audit |-> <<>>, aborted |-> FALSE, result |-> "none",
             fee_amount |-> <<>>, detail |-> "", returned |-> <<>>,
             limit |-> 0, offset |-> 0]

\* Exists that finds a row for every id
ExistsForEveryId(a) == a \in AccountIds

\* the SELECT by account_id returns a row
Exists(a) == a \in AccountIds /\ accounts[a].exists

\* InvalidAmount that lets zero through
InvalidAmountBelowZero(amount) == amount < 0

\* amount <= 0, the first test of every money-moving operation
InvalidAmount(amount) == amount <= 0

\* SameAccount that never holds
SameAccountNever(from_account_id, to_account_id) == FALSE

\* from_account_id == to_account_id
SameAccount(from_account_id, to_account_id) == from_account_id = to_account_id

\* ---------------------------------------------------------------------------
\* Connection primitives
\* ---------------------------------------------------------------------------

\* LockFree without FOR UPDATE: the SELECT never waits
LockNotTaken(p, a) == TRUE

\* a row lock can be taken by p: nobody else holds it
LockFree(p, a) == locks[a] \in {"free", p}

\* Released that keeps every lock where it is
ReleasedNothing(p) == locks

\* conn.rollback() / conn.close(): every row lock of p is released
Released(p) == [a \in AccountIds |-> IF locks[a] = p THEN "free" ELSE locks[a]]

\* the operation of p has started: arguments recorded, locals cleared
Started(p, op, account_id, to_account_id, amount, arg) ==
    [IdleProc EXCEPT !.op = op, !.account_id = account_id,
                     !.to_account_id = to_account_id, !.amount = amount,
                     !.arg = arg]

\* str(e) that leaves the cause out
str_generic(e) == "Withdrawal failed"

\* str(e) of the errors withdraw raises, up to the account id and amounts
\* they quote
str(e) ==
    CASE e = "InsufficientFundsError" -> "Insufficient funds in account"
      [] e = "AccountNotActiveOrFrozenError" -> "Account is not active or is frozen"
      [] e = "AccountNotFoundError" -> "Account not found"
      [] e = "InvalidTransactionTypeError" -> "Transaction type 'withdrawal' not found"
      [] OTHER -> "Withdrawal failed"

\* the operation of p has ended with outcome r: locals and uncommitted
\* writes are gone; the call and its outcome stay with the idle caller until
\* it starts its next call.  A withdraw called by apply_fee returns into
\* apply_fee: on success to its FEE_APPLIED audit, on an error to its
\* except-branch, which raises FeeError quoting str(e).
Ended(p, r) ==
    LET left == [IdleProc EXCEPT
                    !.op = proc[p].op, !.account_id = proc[p].account_id,
                    !.to_account_id = proc[p].to_account_id,
                    !.amount = proc[p].amount, !.arg = proc[p].arg,
                    !.fee_amount = proc[p].fee_amount]
    IN IF proc[p].op = "apply_fee" /\ proc[p].pc # "apply_fee_audit"
       THEN IF r = "ok"
            THEN [left EXCEPT !.pc = "apply_fee_audit"]
            ELSE [left EXCEPT !.result = "FeeError", !.detail = str(r)]
       ELSE [left EXCEPT !.result = r]

\* an argument check failed before any connection was opened
Rejected(p, op, account_id, to_account_id, amount, arg, err) ==
    /\ proc' = [proc EXCEPT ![p] =
                   [Started(p, op, account_id, to_account_id, amount, arg)
                       EXCEPT !.result = err]]
    /\ UNCHANGED <<accounts, transactions, audit_log, locks>>

\* Rollback that lets the balance updates of the unit through
RollbackKeepingBalance(p, err) ==
    /\ proc' = [proc EXCEPT ![p] = Ended(p, err)]
    /\ locks' = Released(p)
    /\ accounts' = [a \in AccountIds |->
                       IF a \in proc[p].dirty
                       THEN [accounts[a] EXCEPT !.balance = proc[p].row[a]]
                       ELSE accounts[a]]
    /\ UNCHANGED <<transactions, audit_log>>

\* except-branch of every money-moving operation: conn.rollback(), re-raise
Rollback(p, err) ==
    /\ proc' = [proc EXCEPT ![p] = Ended(p, err)]
    /\ locks' = Released(p)
    /\ UNCHANGED <<accounts, transactions, audit_log>>

\* _update_account_balance as SET balance = balance - amount_change
_update_account_balance_negated(balance, amount_change) == balance - amount_change

\* _update_account_balance as SET balance = amount_change
_update_account_balance_overwrite(balance, amount_change) == amount_change

\* UPDATE accounts SET balance = balance + amount_change
_update_account_balance(balance, amount_change) == balance + amount_change

\* _record_transaction storing the unsigned amount
_record_transaction_unsigned(account_id, type_name, amount, related_account_id) ==
    [account_id |-> account_id, type_name |-> type_name,
     amount |-> IF amount < 0 THEN -amount ELSE amount,
     related_account_id |-> related_account_id]

\* INSERT INTO transactions ... : the row appended
_record_transaction(account_id, type_name, amount, related_account_id) ==
    [account_id |-> account_id, type_name |-> type_name, amount |-> amount,
     related_account_id |-> related_account_id]

\* INSERT INTO audit_log ... : the row appended
log_event(action_type, target_id) ==
    [action_type |-> action_type, target_id |-> target_id]

\* the balance p's connection sees for a: its own uncommitted version, else
\* the committed one
Visible(p, a) ==
    IF a \in proc[p].dirty THEN proc[p].row[a] ELSE accounts[a].balance

\* Published when the unit is committed right after its first balance update
PublishedSourceOnly(p) ==
    [a \in AccountIds |->
        IF a \in proc[p].dirty /\ a = proc[p].account_id
        THEN [accounts[a] EXCEPT !.balance = proc[p].row[a]]
        ELSE accounts[a]]

\* the accounts table after p's uncommitted row versions are published
Published(p) ==
    [a \in AccountIds |->
        IF a \in proc[p].dirty
        THEN [accounts[a] EXCEPT !.balance = proc[p].row[a]]
        ELSE accounts[a]]

\* Commit that writes its transaction rows over the table
CommitOverwriting(p, records) ==
    /\ accounts' = Published(p)
    /\ transactions' = records
    /\ audit_log' = audit_log \o proc[p].pending_audit
    /\ locks' = Released(p)
    /\ proc' = [proc EXCEPT ![p] = Ended(p, "ok")]

\* conn.commit(): row versions, the given transaction rows and the pending
\* audit rows become visible together; row locks are released
Commit(p, records) ==
    /\ accounts' = Published(p)
    /\ transactions' = transactions \o records
    /\ audit_log' = audit_log \o proc[p].pending_audit
    /\ locks' = Released(p)
    /\ proc' = [proc EXCEPT ![p] = Ended(p, "ok")]

\* SELECT SUM(amount) FROM transactions WHERE account_id = ... (0 for none)
RECURSIVE SumAmounts(_, _)
SumAmounts(records, account_id) ==
    IF records = <<>> THEN 0
    ELSE (IF Head(records).account_id = account_id THEN Head(records).amount ELSE 0)
         + SumAmounts(Tail(records), account_id)

\* ---------------------------------------------------------------------------
\* accounting_validator.verify_ledger_integrity
\* ---------------------------------------------------------------------------

\* decimal places of the amounts the operations are called with; an amount m
\* of the model is m units of the last of these places
AmountPlaces == 2

\* decimal places of quantizer = Decimal("0.01")
QuantizerPlaces == 2

RECURSIVE Pow10(_)
Pow10(n) == IF n = 0 THEN 1 ELSE 10 * Pow10(n - 1)

\* total_sum.quantize(quantizer, rounding=ROUND_HALF_UP): the multiple of the
\* quantizer nearest to total_sum, a tie going away from zero
quantize(total_sum) ==
    LET unit == Pow10(AmountPlaces - QuantizerPlaces)
        magnitude == IF total_sum < 0 THEN -total_sum ELSE total_sum
        whole == magnitude \div unit
        rounded == IF 2 * (magnitude % unit) >= unit THEN whole + 1 ELSE whole
    IN IF total_sum < 0 THEN -(rounded * unit) ELSE rounded * unit

\* SELECT SUM(amount) FROM transactions; <<>> is the NULL of an empty table
RECURSIVE sum_amount(_)
sum_amount(records) ==
    IF records = <<>> THEN <<>>
    ELSE LET rest == sum_amount(Tail(records))
         IN << Head(records).amount + (IF rest = <<>> THEN 0 ELSE rest[1]) >>

\* verify_ledger_integrity that reports every ledger as balanced
verify_ledger_integrity_untested(records) ==
    LET result == sum_amount(records)
    IN IF result # <<>> THEN << TRUE, quantize(result[1]) >> ELSE << TRUE, 0 >>

\* (balanced, total_sum_quantized) for the transactions table
verify_ledger_integrity(records) ==
    LET result == sum_amount(records)
    IN IF result # <<>>
       THEN LET total_sum_quantized == quantize(result[1])
            IN << total_sum_quantized = 0, total_sum_quantized >>
       ELSE << TRUE, 0 >>

\* ---------------------------------------------------------------------------
\* accounting_validator.check_account_balance_vs_transactions
\* ---------------------------------------------------------------------------

\* SELECT balance FROM accounts WHERE account_id = ...: no row raises
\* AccountingValidationError, else the committed balance is kept
check_account_balance_vs_transactions_begin(p, account_id) ==
    /\ proc[p].pc = "idle" /\ nops > 0
    /\ nops' = nops - 1
    /\ LET call == [IdleProc EXCEPT !.op = "check_account_balance_vs_transactions",
                                    !.account_id = account_id]
       IN proc' = [proc EXCEPT ![p] =
                      IF ~Exists(account_id)
                      THEN [call EXCEPT !.result = "AccountingValidationError"]
                      ELSE [call EXCEPT !.pc = "check_account_balance_vs_transactions_sum",
                                        !.balance = accounts[account_id].balance]]
    /\ UNCHANGED <<accounts, transactions, audit_log, locks>>

\* SELECT SUM(amount) FROM transactions WHERE account_id = ..., a statement
\* of its own; both values are quantized and compared
check_account_balance_vs_transactions_sum(p) ==
    /\ proc[p].pc = "check_account_balance_vs_transactions_sum"
    /\ LET reported_balance_q == quantize(proc[p].balance)
           transactions_sum_q == quantize(SumAmounts(transactions, proc[p].account_id))
       IN proc' = [proc EXCEPT ![p] =
                      [IdleProc EXCEPT
                          !.op = proc[p].op, !.account_id = proc[p].account_id,
                          !.result = "ok",
                          !.returned = << reported_balance_q = transactions_sum_q,
                                          reported_balance_q, transactions_sum_q >>]]
    /\ UNCHANGED <<accounts, transactions, audit_log, locks, nops>>

\* the overdraft test shared by withdraw, transfer_funds, ACH debit and
\* outgoing wire: the account newly enters, or goes deeper into, overdraft
OverdraftUsed(balance, new_balance) ==
    new_balance < 0 /\ (~(balance < 0) \/ new_balance < balance)

\* Outcomes of the OVERDRAFT_USED log_event call inside the unit:
\*   "logged"   the INSERT succeeded on the caller's connection
\*   "db_error" the INSERT failed in the server: the exception is swallowed
\*              but the connection's transaction is now aborted
\*   "raised"   log_event raised before its INSERT reached the server (the
\*              local import, conn.cursor()): the exception is swallowed and
\*              the transaction is intact
AuditOutcomes == {"logged", "db_error", "raised"}

\* get_transaction_type_id: the type row is found, or InvalidTransactionTypeError
LookupOutcomes == {"ok", "no_type"}

\* a statement of the unit succeeds, or the driver raises (wrapped as
\* TransactionError by the generic except-branch)
InsertOutcomes == {"ok", "db_error"}

\* Debited that leaves the balance as it is
DebitedWithoutUpdate(p, a, audit) == proc[p]

\* the debit of p's locked account by amount, with its overdraft audit
Debited(p, a, audit) ==
    LET new_balance == _update_account_balance(Visible(p, a), -proc[p].amount)
        used == OverdraftUsed(proc[p].balance, proc[p].balance - proc[p].amount)
    IN [proc[p] EXCEPT
            !.dirty = @ \cup {a},
            !.row[a] = new_balance,
            !.pending_audit =
                IF used /\ audit = "logged"
                THEN Append(@, log_event("OVERDRAFT_USED", a)) ELSE @,
            !.aborted = used /\ audit = "db_error"]

\* ---------------------------------------------------------------------------
\* Initial states
\* ---------------------------------------------------------------------------

\* OpenedRow that stores a zero balance whatever is passed
OpenedRowWithoutBalance(initial_balance) ==
    [exists |-> TRUE, balance |-> 0, status_name |-> "active",
     overdraft_limit |-> 0, initial_balance |-> initial_balance]

\* the row open_account inserts: status active, overdraft_limit at its DDL
\* default, no transaction record for the opening balance
OpenedRow(initial_balance) ==
    [exists |-> TRUE, balance |-> initial_balance, status_name |-> "active",
     overdraft_limit |-> 0, initial_balance |-> initial_balance]

\* everything but the accounts table is as the schema scripts leave it
Fresh(budget) ==
    /\ transactions = <<>>
    /\ audit_log = <<>>
    /\ locks = [a \in AccountIds |-> "free"]
    /\ proc = [p \in Procs |-> IdleProc]
    /\ nops = budget

\* the schema is loaded, no account has been opened
Init ==
    /\ accounts = [a \in AccountIds |-> NoRow]
    /\ Fresh(MaxOps)

CanStart(p) == proc[p].pc = "idle" /\ nops > 0

\* ---------------------------------------------------------------------------
\* account_management.open_account
\* ---------------------------------------------------------------------------
open_account(p, customer_found, account_type, initial_balance) ==
    /\ CanStart(p)
    /\ nops' = nops - 1
    /\ \E a \in AccountIds : ~accounts[a].exists
    /\ UNCHANGED <<transactions, audit_log, locks>>
    /\ LET a == CHOOSE i \in AccountIds :
                    /\ ~accounts[i].exists
                    /\ \A j \in AccountIds : j < i => accounts[j].exists
           call == Started(p, "open_account", 0, 0, initial_balance, account_type)
       IN IF ~customer_found
          THEN /\ proc' = [proc EXCEPT ![p] =
                              [call EXCEPT !.result = "CustomerNotFoundError"]]
               /\ UNCHANGED accounts
          ELSE IF account_type \notin SUPPORTED_ACCOUNT_TYPES
          THEN /\ proc' = [proc EXCEPT ![p] =
                              [call EXCEPT !.result = "InvalidAccountTypeError"]]
               /\ UNCHANGED accounts
          ELSE /\ accounts' = [accounts EXCEPT ![a] = OpenedRow(initial_balance)]
               /\ proc' = [proc EXCEPT ![p] =
                              [call EXCEPT !.account_id = a, !.result = "ok"]]

\* ---------------------------------------------------------------------------
\* account_management.get_transaction_history
\* ---------------------------------------------------------------------------

\* Precedes with ties in ascending transaction_id order
PrecedesTiesAscending(records, i, j) ==
    \/ records[i].transaction_timestamp > records[j].transaction_timestamp
    \/ /\ records[i].transaction_timestamp = records[j].transaction_timestamp
       /\ i < j

\* ORDER BY t.transaction_timestamp DESC, t.transaction_id DESC: row i comes
\* before row j (a row's transaction_id is its place in the table)
Precedes(records, i, j) ==
    \/ records[i].transaction_timestamp > records[j].transaction_timestamp
    \/ /\ records[i].transaction_timestamp = records[j].transaction_timestamp
       /\ i > j

\* the transaction_ids of ids in the ORDER BY order
RECURSIVE order_by(_, _)
order_by(records, ids) ==
    IF ids = {} THEN <<>>
    ELSE LET first == CHOOSE i \in ids :
                          \A j \in ids \ {i} : Precedes(records, i, j)
         IN << first >> \o order_by(records, ids \ {first})

\* LIMIT limit OFFSET offset
limit_offset(rows, limit, offset) ==
    SubSeq(rows, offset + 1,
           IF offset + limit < Len(rows) THEN offset + limit ELSE Len(rows))

\* the dictionaries returned, without description and amount
history_query(records, account_id, limit, offset) ==
    LET ids == {i \in DOMAIN records : records[i].account_id = account_id}
        page == limit_offset(order_by(records, ids), limit, offset)
    IN [k \in DOMAIN page |->
           [transaction_id |-> page[k],
            account_id |-> records[page[k]].account_id,
            type_name |-> records[page[k]].type_name,
            transaction_timestamp |-> records[page[k]].transaction_timestamp,
            related_account_id |-> records[page[k]].related_account_id]]

\* get_account_by_id(account_id): verifies that the account exists
get_transaction_history_begin(p, account_id, limit, offset) ==
    /\ CanStart(p)
    /\ nops' = nops - 1
    /\ LET call == [IdleProc EXCEPT !.op = "get_transaction_history",
                                    !.account_id = account_id,
                                    !.limit = limit, !.offset = offset]
       IN proc' = [proc EXCEPT ![p] =
                      IF ~Exists(account_id)
                      THEN [call EXCEPT !.result = "AccountNotFoundError"]
                      ELSE [call EXCEPT !.pc = "get_transaction_history_query"]]
    /\ UNCHANGED <<accounts, transactions, audit_log, locks>>

\* the SELECT on a connection of execute_query, and the list built from it
get_transaction_history_query(p) ==
    /\ proc[p].pc = "get_transaction_history_query"
    /\ proc' = [proc EXCEPT ![p] =
                   [proc[p] EXCEPT
                       !.pc = "idle", !.result = "ok",
                       !.returned = history_query(transactions, proc[p].account_id,
                                                  proc[p].limit, proc[p].offset)]]
    /\ UNCHANGED <<accounts, transactions, audit_log, locks, nops>>

\* ---------------------------------------------------------------------------
\* account_management.set_overdraft_limit
\* ---------------------------------------------------------------------------

\* the limit test, then get_account_by_id on a connection of its own

\* NegativeLimit that lets limits down to -1 through
NegativeLimitBelowMinusOne(limit) == limit < -1

\* float(limit) < 0
NegativeLimit(limit) == limit < 0

\* the limit test, then get_account_by_id
set_overdraft_limit_begin(p, account_id, limit) ==
    /\ CanStart(p)
    /\ nops' = nops - 1
    /\ IF NegativeLimit(limit)
       THEN Rejected(p, "set_overdraft_limit", account_id, 0, limit, "", "ValueError")
       ELSE IF ~Exists(account_id)
       THEN Rejected(p, "set_overdraft_limit", account_id, 0, limit, "",
                     "AccountNotFoundError")
       ELSE /\ proc' = [proc EXCEPT ![p] =
                          [Started(p, "set_overdraft_limit", account_id, 0, limit, "")
                              EXCEPT !.pc = "set_overdraft_limit_update",
                                     !.overdraft_limit =
                                         accounts[account_id].overdraft_limit]]
            /\ UNCHANGED <<accounts, transactions, audit_log, locks>>

\* UPDATE accounts SET overdraft_limit = ... committed by execute_query; the
\* UPDATE waits for the row lock
set_overdraft_limit_update(p) ==
    /\ proc[p].pc = "set_overdraft_limit_update"
    /\ LockFree(p, proc[p].account_id)
    /\ accounts' = [accounts EXCEPT
                       ![proc[p].account_id].overdraft_limit = proc[p].amount]
    /\ proc' = [proc EXCEPT ![p].pc = "set_overdraft_limit_audit"]
    /\ UNCHANGED <<transactions, audit_log, locks, nops>>

\* log_event('OVERDRAFT_LIMIT_CHANGE') on a connection of its own, after the
\* commit; a failure is printed and swallowed
set_overdraft_limit_audit(p, logged) ==
    /\ proc[p].pc = "set_overdraft_limit_audit"
    /\ audit_log' = IF logged
                    THEN Append(audit_log,
                                log_event("OVERDRAFT_LIMIT_CHANGE", proc[p].account_id))
                    ELSE audit_log
    /\ proc' = [proc EXCEPT ![p] = Ended(p, "ok")]
    /\ UNCHANGED <<accounts, transactions, locks, nops>>

\* ---------------------------------------------------------------------------
\* account_management.update_account_status
\* ---------------------------------------------------------------------------

\* CloseBlocked testing balance > 0 for balance != 0
CloseBlockedOnCredit(new_status_name, balance) ==
    new_status_name = "closed" /\ balance > 0

\* CloseBlocked that guards freezing as well
CloseOrFreezeBlocked(new_status_name, balance) ==
    new_status_name \in {"closed", "frozen"} /\ balance # 0

\* the guard on closing: the balance read by get_account_by_id is not zero
CloseBlocked(new_status_name, balance) ==
    new_status_name = "closed" /\ balance # 0

\* get_account_by_id, the zero-balance guard on closing, get_account_status_id
update_account_status_begin(p, account_id, new_status_name) ==
    /\ CanStart(p)
    /\ nops' = nops - 1
    /\ IF ~Exists(account_id)
       THEN Rejected(p, "update_account_status", account_id, 0, 0, new_status_name,
                     "AccountNotFoundError")
       ELSE IF CloseBlocked(new_status_name, accounts[account_id].balance)
       THEN Rejected(p, "update_account_status", account_id, 0, 0, new_status_name,
                     "AccountStatusError")
       ELSE IF new_status_name \notin StatusNames
       THEN Rejected(p, "update_account_status", account_id, 0, 0, new_status_name,
                     "ValueError")
       ELSE /\ proc' = [proc EXCEPT ![p] =
                          [Started(p, "update_account_status", account_id, 0, 0,
                                   new_status_name)
                              EXCEPT !.pc = "update_account_status_update",
                                     !.balance = accounts[account_id].balance,
                                     !.status_name = accounts[account_id].status_name]]
            /\ UNCHANGED <<accounts, transactions, audit_log, locks>>

\* UPDATE accounts SET status_id = ... committed by execute_query; the UPDATE
\* waits for the row lock
update_account_status_update(p) ==
    /\ proc[p].pc = "update_account_status_update"
    /\ LockFree(p, proc[p].account_id)
    /\ accounts' = [accounts EXCEPT ![proc[p].account_id].status_name = proc[p].arg]
    /\ proc' = [proc EXCEPT ![p].pc = "update_account_status_audit"]
    /\ UNCHANGED <<transactions, audit_log, locks, nops>>

\* log_account_status_change on a connection of its own, after the commit; a
\* failure is printed and swallowed
update_account_status_audit(p, logged) ==
    /\ proc[p].pc = "update_account_status_audit"
    /\ audit_log' = IF logged
                    THEN Append(audit_log,
                                log_event("ACCOUNT_STATUS_CHANGE", proc[p].account_id))
                    ELSE audit_log
    /\ proc' = [proc EXCEPT ![p] = Ended(p, "ok")]
    /\ UNCHANGED <<accounts, transactions, locks, nops>>

\* ---------------------------------------------------------------------------
\* transaction_processing.deposit
\* ---------------------------------------------------------------------------
deposit_begin(p, account_id, amount) ==
    /\ CanStart(p)
    /\ nops' = nops - 1
    /\ IF InvalidAmount(amount)
       THEN Rejected(p, "deposit", account_id, 0, amount, "", "InvalidAmountError")
       ELSE /\ proc' = [proc EXCEPT ![p] =
                          [Started(p, "deposit", account_id, 0, amount, "")
                              EXCEPT !.pc = "deposit_status"]]
            /\ UNCHANGED <<accounts, transactions, audit_log, locks>>

\* SELECT status_id FROM accounts (no row lock is taken), then the status test
deposit_status(p) ==
    /\ proc[p].pc = "deposit_status"
    /\ UNCHANGED nops
    /\ LET a == proc[p].account_id
       IN IF ~Exists(a) THEN Rollback(p, "AccountNotFoundError")
          ELSE IF accounts[a].status_name # "active"
          THEN Rollback(p, "AccountNotActiveOrFrozenError")
          ELSE /\ proc' = [proc EXCEPT ![p].pc = "deposit_update",
                                       ![p].status_name = accounts[a].status_name]
               /\ UNCHANGED <<accounts, transactions, audit_log, locks>>

\* _update_account_balance: the UPDATE waits for the row lock, then adds to
\* the latest committed balance
deposit_update(p) ==
    /\ proc[p].pc = "deposit_update"
    /\ LockFree(p, proc[p].account_id)
    /\ UNCHANGED <<accounts, transactions, audit_log, nops>>
    /\ LET a == proc[p].account_id
       IN /\ locks' = [locks EXCEPT ![a] = p]
          /\ proc' = [proc EXCEPT
                 ![p].pc = "deposit_record",
                 ![p].dirty = @ \cup {a},
                 ![p].row[a] = _update_account_balance(Visible(p, a), proc[p].amount)]

\* get_transaction_type_id('deposit'), _record_transaction, conn.commit()
deposit_record(p, lookup, insert) ==
    /\ proc[p].pc = "deposit_record"
    /\ UNCHANGED nops
    /\ CASE lookup = "no_type" -> Rollback(p, "InvalidTransactionTypeError")
         [] insert = "db_error" -> Rollback(p, "TransactionError")
         [] OTHER ->
              Commit(p, << _record_transaction(proc[p].account_id, "deposit",
                                               proc[p].amount, NoAccount) >>)

\* ---------------------------------------------------------------------------
\* transaction_processing.withdraw
\* ---------------------------------------------------------------------------
withdraw_begin(p, account_id, amount) ==
    /\ CanStart(p)
    /\ nops' = nops - 1
    /\ IF InvalidAmount(amount)
       THEN Rejected(p, "withdraw", account_id, 0, amount, "", "InvalidAmountError")
       ELSE /\ proc' = [proc EXCEPT ![p] =
                          [Started(p, "withdraw", account_id, 0, amount, "")
                              EXCEPT !.pc = "withdraw_select"]]
            /\ UNCHANGED <<accounts, transactions, audit_log, locks>>

\* SelectForUpdate that reads every status as active
SelectForUpdateAsActive(p, next_pc) ==
    LET a == proc[p].account_id
    IN IF ~Exists(a) THEN Rollback(p, "AccountNotFoundError")
       ELSE /\ LockFree(p, a)
            /\ locks' = [locks EXCEPT ![a] = p]
            /\ proc' = [proc EXCEPT
                   ![p].pc = next_pc,
                   ![p].balance = accounts[a].balance,
                   ![p].status_name = "active",
                   ![p].overdraft_limit = accounts[a].overdraft_limit]
            /\ UNCHANGED <<accounts, transactions, audit_log>>

\* SELECT balance, status_id, overdraft_limit ... FOR UPDATE
SelectForUpdate(p, next_pc) ==
    LET a == proc[p].account_id
    IN IF ~Exists(a) THEN Rollback(p, "AccountNotFoundError")
       ELSE /\ LockFree(p, a)
            /\ locks' = [locks EXCEPT ![a] = p]
            /\ proc' = [proc EXCEPT
                   ![p].pc = next_pc,
                   ![p].balance = accounts[a].balance,
                   ![p].status_name = accounts[a].status_name,
                   ![p].overdraft_limit = accounts[a].overdraft_limit]
            /\ UNCHANGED <<accounts, transactions, audit_log>>

withdraw_select(p) ==
    /\ proc[p].pc = "withdraw_select"
    /\ UNCHANGED nops
    /\ SelectForUpdate(p, "withdraw_update")

\* InsufficientFunds with <= for <
InsufficientFundsOffByOne(balance, amount, overdraft_limit) ==
    balance - amount <= -overdraft_limit

\* the funds test of every debit
InsufficientFunds(balance, amount, overdraft_limit) ==
    balance - amount < -overdraft_limit

\* status test, funds test, _update_account_balance, OVERDRAFT_USED audit
withdraw_update(p, audit) ==
    /\ proc[p].pc = "withdraw_update"
    /\ UNCHANGED nops
    /\ IF proc[p].status_name # "active"
       THEN Rollback(p, "AccountNotActiveOrFrozenError")
       ELSE IF InsufficientFunds(proc[p].balance, proc[p].amount, proc[p].overdraft_limit)
       THEN Rollback(p, "InsufficientFundsError")
       ELSE /\ proc' = [proc EXCEPT ![p] =
                          [Debited(p, proc[p].account_id, audit)
                              EXCEPT !.pc = "withdraw_record"]]
            /\ UNCHANGED <<accounts, transactions, audit_log, locks>>

\* get_transaction_type_id('withdrawal'), _record_transaction, conn.commit();
\* on a connection whose transaction the failed audit INSERT aborted, the
\* lookup raises
withdraw_record(p, lookup, insert) ==
    /\ proc[p].pc = "withdraw_record"
    /\ UNCHANGED nops
    /\ CASE proc[p].aborted -> Rollback(p, "TransactionError")
         [] lookup = "no_type" -> Rollback(p, "InvalidTransactionTypeError")
         [] insert = "db_error" -> Rollback(p, "TransactionError")
         [] OTHER ->
              Commit(p, << _record_transaction(proc[p].account_id, "withdrawal",
                                               -proc[p].amount, NoAccount) >>)

\* ---------------------------------------------------------------------------
\* fee_engine.apply_fee
\* ---------------------------------------------------------------------------

\* the fee_types table: fee_name -> default_amount
fee_types == [monthly_maintenance_fee |-> 1, courtesy_fee |-> 0]

\* fee_amount arguments: <<>> is None, <<m>> is the amount m
FeeAmounts == {<<>>} \cup {<<m>> : m \in Amounts}

\* final_fee_amount that ignores the fee_amount argument
final_fee_amount_default(fee_amount, default_amount) == default_amount

\* Decimal(str(fee_amount)) if fee_amount is not None else the default amount
final_fee_amount(fee_amount, default_amount) ==
    IF fee_amount # <<>> THEN fee_amount[1] ELSE default_amount

\* NotPositive that lets a zero amount through
NotPositiveExceptZero(amount) == amount < 0

\* final_fee_amount <= 0
NotPositive(amount) == amount <= 0

\* get_fee_type_details, the amount test, then the call of withdraw, whose
\* own amount test passes
apply_fee_begin(p, account_id, fee_type_name, fee_amount) ==
    /\ CanStart(p)
    /\ nops' = nops - 1
    /\ LET call == [Started(p, "apply_fee", account_id, 0, 0, fee_type_name)
                       EXCEPT !.fee_amount = fee_amount]
       IN /\ UNCHANGED <<accounts, transactions, audit_log, locks>>
          /\ IF fee_type_name \notin DOMAIN fee_types
             THEN proc' = [proc EXCEPT ![p] =
                              [call EXCEPT !.result = "FeeTypeNotFoundError"]]
             ELSE LET final == final_fee_amount(fee_amount, fee_types[fee_type_name])
                  IN IF NotPositive(final)
                     THEN proc' = [proc EXCEPT ![p] =
                                      [call EXCEPT !.amount = final,
                                                   !.result = "FeeError",
                                                   !.detail = "Fee amount must be positive"]]
                     ELSE proc' = [proc EXCEPT ![p] =
                                      [call EXCEPT !.amount = final,
                                                   !.pc = "withdraw_select"]]

\* log_event('FEE_APPLIED') on a connection of its own, after withdraw has
\* committed; a failure is printed and swallowed
apply_fee_audit(p, logged) ==
    /\ proc[p].pc = "apply_fee_audit"
    /\ audit_log' = IF logged
                    THEN Append(audit_log, log_event("FEE_APPLIED", proc[p].account_id))
                    ELSE audit_log
    /\ proc' = [proc EXCEPT ![p] = Ended(p, "ok")]
    /\ UNCHANGED <<accounts, transactions, locks, nops>>

\* ---------------------------------------------------------------------------
\* transaction_processing.transfer_funds
\* ---------------------------------------------------------------------------
Min(a, b) == IF a < b THEN a ELSE b
Max(a, b) == IF a < b THEN b ELSE a

\* acc_ids with the greater id first
acc_ids_descending(from_account_id, to_account_id) ==
    << Max(from_account_id, to_account_id), Min(from_account_id, to_account_id) >>

\* acc_ids in the direction of the transfer
acc_ids_by_direction(from_account_id, to_account_id) ==
    << from_account_id, to_account_id >>

\* acc_id_1, acc_id_2: the account locked first and the account locked second
acc_ids(from_account_id, to_account_id) ==
    << Min(from_account_id, to_account_id), Max(from_account_id, to_account_id) >>

transfer_funds_begin(p, from_account_id, to_account_id, amount) ==
    /\ CanStart(p)
    /\ nops' = nops - 1
    /\ IF InvalidAmount(amount)
       THEN Rejected(p, "transfer_funds", from_account_id, to_account_id, amount, "",
                     "InvalidAmountError")
       ELSE IF SameAccount(from_account_id, to_account_id)
       THEN Rejected(p, "transfer_funds", from_account_id, to_account_id, amount, "",
                     "TransactionError")
       ELSE /\ proc' = [proc EXCEPT ![p] =
                          [Started(p, "transfer_funds", from_account_id, to_account_id,
                                   amount, "")
                              EXCEPT !.pc = "transfer_funds_select1"]]
            /\ UNCHANGED <<accounts, transactions, audit_log, locks>>

\* SELECT ... FOR UPDATE on acc_id_1: a missing row takes no lock
transfer_funds_select1(p) ==
    /\ proc[p].pc = "transfer_funds_select1"
    /\ UNCHANGED <<accounts, transactions, audit_log, nops>>
    /\ LET a == acc_ids(proc[p].account_id, proc[p].to_account_id)[1]
       IN /\ Exists(a) => LockFree(p, a)
          /\ locks' = IF Exists(a) THEN [locks EXCEPT ![a] = p] ELSE locks
          /\ proc' = [proc EXCEPT ![p].pc = "transfer_funds_select2"]

\* SELECT ... FOR UPDATE on acc_id_2, then the test that both rows came back
transfer_funds_select2(p) ==
    /\ proc[p].pc = "transfer_funds_select2"
    /\ UNCHANGED <<accounts, transactions, audit_log, nops>>
    /\ LET a1 == acc_ids(proc[p].account_id, proc[p].to_account_id)[1]
           a2 == acc_ids(proc[p].account_id, proc[p].to_account_id)[2]
           from == proc[p].account_id
           to == proc[p].to_account_id
       IN /\ Exists(a2) => LockFree(p, a2)
          /\ IF ~Exists(a1) \/ ~Exists(a2)
             THEN /\ proc' = [proc EXCEPT ![p] = Ended(p, "AccountNotFoundError")]
                  /\ locks' = Released(p)
             ELSE /\ locks' = [locks EXCEPT ![a2] = p]
                  /\ proc' = [proc EXCEPT
                         ![p].pc = "transfer_funds_update",
                         ![p].balance = accounts[from].balance,
                         ![p].status_name = accounts[from].status_name,
                         ![p].overdraft_limit = accounts[from].overdraft_limit,
                         ![p].to_status_name = accounts[to].status_name]

\* transfer_checks with the funds test first
transfer_checks_funds_first(from_status_name, to_status_name, from_balance, amount, from_overdraft_limit) ==
    IF InsufficientFunds(from_balance, amount, from_overdraft_limit)
    THEN << "InsufficientFundsError", "Insufficient funds in account" >>
    ELSE IF from_status_name # "active"
    THEN << "AccountNotActiveOrFrozenError", "Origin account is not active or is frozen" >>
    ELSE IF to_status_name # "active"
    THEN << "AccountNotActiveOrFrozenError", "Destination account is not active" >>
    ELSE << >>

\* the tests of transfer_funds on the two locked rows, in their order: the
\* exception raised and its message up to the ids and amounts it quotes, or
\* <<>> when all pass
transfer_checks(from_status_name, to_status_name, from_balance, amount, from_overdraft_limit) ==
    IF from_status_name # "active"
    THEN << "AccountNotActiveOrFrozenError", "Origin account is not active or is frozen" >>
    ELSE IF to_status_name # "active"
    THEN << "AccountNotActiveOrFrozenError", "Destination account is not active" >>
    ELSE IF InsufficientFunds(from_balance, amount, from_overdraft_limit)
    THEN << "InsufficientFundsError", "Insufficient funds in account" >>
    ELSE << >>

\* both status tests, the funds test, the debit with its OVERDRAFT_USED
\* audit, the credit; on a connection whose transaction the failed audit
\* INSERT aborted, the credit UPDATE raises
transfer_funds_update(p, audit) ==
    /\ proc[p].pc = "transfer_funds_update"
    /\ UNCHANGED nops
    /\ LET debited == Debited(p, proc[p].account_id, audit)
           to == proc[p].to_account_id
           raised == transfer_checks(proc[p].status_name, proc[p].to_status_name,
                                     proc[p].balance, proc[p].amount,
                                     proc[p].overdraft_limit)
       IN IF raised # << >>
          THEN /\ proc' = [proc EXCEPT ![p] =
                              [Ended(p, raised[1]) EXCEPT !.detail = raised[2]]]
               /\ locks' = Released(p)
               /\ UNCHANGED <<accounts, transactions, audit_log>>
          ELSE IF debited.aborted
          THEN Rollback(p, "TransactionError")
          ELSE /\ proc' = [proc EXCEPT ![p] =
                             [debited EXCEPT
                                 !.pc = "transfer_funds_record",
                                 !.dirty = @ \cup {to},
                                 !.row[to] = _update_account_balance(
                                                 Visible(p, to), proc[p].amount)]]
               /\ UNCHANGED <<accounts, transactions, audit_log, locks>>

\* transfer_records with the credit leg naming its own account
transfer_records_self_reference(from_account_id, to_account_id, amount) ==
    << _record_transaction(from_account_id, "transfer", -amount, to_account_id),
       _record_transaction(to_account_id, "transfer", amount, to_account_id) >>

\* the debit record on the source and the credit record on the destination,
\* each naming the other account
transfer_records(from_account_id, to_account_id, amount) ==
    << _record_transaction(from_account_id, "transfer", -amount, to_account_id),
       _record_transaction(to_account_id, "transfer", amount, from_account_id) >>

\* get_transaction_type_id('transfer'), the two _record_transaction calls,
\* conn.commit()
transfer_funds_record(p, lookup, insert) ==
    /\ proc[p].pc = "transfer_funds_record"
    /\ UNCHANGED nops
    /\ CASE lookup = "no_type" -> Rollback(p, "InvalidTransactionTypeError")
         [] insert = "db_error" -> Rollback(p, "TransactionError")
         [] OTHER ->
              Commit(p, transfer_records(proc[p].account_id, proc[p].to_account_id,
                                         proc[p].amount))

\* ---------------------------------------------------------------------------
\* transaction_processing.process_wire_transfer
\* ---------------------------------------------------------------------------
\* WireDirections that also takes "sideways"
WireDirectionsWithSideways == {"incoming", "outgoing", "sideways"}

\* the directions process_wire_transfer takes
WireDirections == {"incoming", "outgoing"}

process_wire_transfer_begin(p, account_id, amount, direction) ==
    /\ CanStart(p)
    /\ nops' = nops - 1
    /\ IF InvalidAmount(amount)
       THEN Rejected(p, "process_wire_transfer", account_id, 0, amount, direction,
                     "InvalidAmountError")
       ELSE IF direction \notin WireDirections
       THEN Rejected(p, "process_wire_transfer", account_id, 0, amount, direction,
                     "ValueError")
       ELSE /\ proc' = [proc EXCEPT ![p] =
                          [Started(p, "process_wire_transfer", account_id, 0, amount,
                                   direction)
                              EXCEPT !.pc = "process_wire_transfer_select"]]
            /\ UNCHANGED <<accounts, transactions, audit_log, locks>>

process_wire_transfer_select(p) ==
    /\ proc[p].pc = "process_wire_transfer_select"
    /\ UNCHANGED nops
    /\ SelectForUpdate(p, "process_wire_transfer_update")

\* Credited that leaves the balance as it is
CreditedWithoutUpdate(p, a) == proc[p]

\* the credit of p's locked account by amount
Credited(p, a) ==
    [proc[p] EXCEPT
        !.dirty = @ \cup {a},
        !.row[a] = _update_account_balance(Visible(p, a), proc[p].amount)]

\* status test, get_transaction_type_id('wire_transfer'), then by direction
\* the funds test and debit with its audit, or the credit
process_wire_transfer_update(p, lookup, audit) ==
    /\ proc[p].pc = "process_wire_transfer_update"
    /\ UNCHANGED nops
    /\ IF proc[p].status_name # "active"
       THEN Rollback(p, "AccountNotActiveOrFrozenError")
       ELSE IF lookup = "no_type"
       THEN Rollback(p, "InvalidTransactionTypeError")
       ELSE IF proc[p].arg = "outgoing"
                 /\ InsufficientFunds(proc[p].balance, proc[p].amount,
                                      proc[p].overdraft_limit)
       THEN Rollback(p, "InsufficientFundsError")
       ELSE /\ proc' = [proc EXCEPT ![p] =
                          [(IF proc[p].arg = "outgoing"
                            THEN Debited(p, proc[p].account_id, audit)
                            ELSE Credited(p, proc[p].account_id))
                              EXCEPT !.pc = "process_wire_transfer_record"]]
            /\ UNCHANGED <<accounts, transactions, audit_log, locks>>

\* _record_transaction, conn.commit()
process_wire_transfer_record(p, insert) ==
    /\ proc[p].pc = "process_wire_transfer_record"
    /\ UNCHANGED nops
    /\ IF proc[p].aborted \/ insert = "db_error"
       THEN Rollback(p, "TransactionError")
       ELSE Commit(p, << _record_transaction(
                             proc[p].account_id, "wire_transfer",
                             IF proc[p].arg = "outgoing"
                             THEN -proc[p].amount ELSE proc[p].amount,
                             NoAccount) >>)

\* ---------------------------------------------------------------------------
\* transaction_processing.process_ach_transaction
\* ---------------------------------------------------------------------------
\* the ach_types process_ach_transaction takes
AchTypes == {"credit", "debit"}

process_ach_transaction_begin(p, account_id, amount, ach_type) ==
    /\ CanStart(p)
    /\ nops' = nops - 1
    /\ IF InvalidAmount(amount)
       THEN Rejected(p, "process_ach_transaction", account_id, 0, amount, ach_type,
                     "InvalidAmountError")
       ELSE IF ach_type \notin AchTypes
       THEN Rejected(p, "process_ach_transaction", account_id, 0, amount, ach_type,
                     "ValueError")
       ELSE /\ proc' = [proc EXCEPT ![p] =
                          [Started(p, "process_ach_transaction", account_id, 0, amount,
                                   ach_type)
                              EXCEPT !.pc = "process_ach_transaction_select"]]
            /\ UNCHANGED <<accounts, transactions, audit_log, locks>>

process_ach_transaction_select(p) ==
    /\ proc[p].pc = "process_ach_transaction_select"
    /\ UNCHANGED nops
    /\ SelectForUpdate(p, "process_ach_transaction_update")

\* status test, then by ach_type the funds test and debit with its audit, or
\* the credit
process_ach_transaction_update(p, audit) ==
    /\ proc[p].pc = "process_ach_transaction_update"
    /\ UNCHANGED nops
    /\ IF proc[p].status_name # "active"
       THEN Rollback(p, "AccountNotActiveOrFrozenError")
       ELSE IF proc[p].arg = "debit"
                 /\ InsufficientFunds(proc[p].balance, proc[p].amount,
                                      proc[p].overdraft_limit)
       THEN Rollback(p, "InsufficientFundsError")
       ELSE /\ proc' = [proc EXCEPT ![p] =
                          [(IF proc[p].arg = "debit"
                            THEN Debited(p, proc[p].account_id, audit)
                            ELSE Credited(p, proc[p].account_id))
                              EXCEPT !.pc = "process_ach_transaction_record"]]
            /\ UNCHANGED <<accounts, transactions, audit_log, locks>>

\* get_transaction_type_id('ach_debit' / 'ach_credit'), _record_transaction,
\* conn.commit()
process_ach_transaction_record(p, lookup, insert) ==
    /\ proc[p].pc = "process_ach_transaction_record"
    /\ UNCHANGED nops
    /\ CASE proc[p].aborted -> Rollback(p, "TransactionError")
         [] lookup = "no_type" -> Rollback(p, "InvalidTransactionTypeError")
         [] insert = "db_error" -> Rollback(p, "TransactionError")
         [] OTHER ->
              Commit(p, << _record_transaction(
                               proc[p].account_id,
                               IF proc[p].arg = "debit" THEN "ach_debit" ELSE "ach_credit",
                               IF proc[p].arg = "debit"
                               THEN -proc[p].amount ELSE proc[p].amount,
                               NoAccount) >>)

\* ---------------------------------------------------------------------------
\* Next-state relations
\* ---------------------------------------------------------------------------

\* the steps of each operation, for calls with arguments drawn from the
\* given sets
deposit(p, ids, amounts) ==
    \/ \E a \in ids, m \in amounts : deposit_begin(p, a, m)
    \/ deposit_status(p)
    \/ deposit_update(p)
    \/ \E l \in LookupOutcomes, i \in InsertOutcomes : deposit_record(p, l, i)

withdraw(p, ids, amounts) ==
    \/ \E a \in ids, m \in amounts : withdraw_begin(p, a, m)
    \/ withdraw_select(p)
    \/ \E o \in AuditOutcomes : withdraw_update(p, o)
    \/ \E l \in LookupOutcomes, i \in InsertOutcomes : withdraw_record(p, l, i)

transfer_funds_steps(p) ==
    \/ transfer_funds_select1(p)
    \/ transfer_funds_select2(p)
    \/ \E o \in AuditOutcomes : transfer_funds_update(p, o)
    \/ \E l \in LookupOutcomes, i \in InsertOutcomes : transfer_funds_record(p, l, i)

transfer_funds(p, pairs, amounts) ==
    \/ \E ft \in pairs, m \in amounts : transfer_funds_begin(p, ft[1], ft[2], m)
    \/ transfer_funds_steps(p)

process_wire_transfer(p, ids, amounts, directions) ==
    \/ \E a \in ids, m \in amounts, d \in directions :
           process_wire_transfer_begin(p, a, m, d)
    \/ process_wire_transfer_select(p)
    \/ \E l \in LookupOutcomes, o \in AuditOutcomes :
           process_wire_transfer_update(p, l, o)
    \/ \E i \in InsertOutcomes : process_wire_transfer_record(p, i)

process_ach_transaction(p, ids, amounts, ach_types) ==
    \/ \E a \in ids, m \in amounts, t \in ach_types :
           process_ach_transaction_begin(p, a, m, t)
    \/ process_ach_transaction_select(p)
    \/ \E o \in AuditOutcomes : process_ach_transaction_update(p, o)
    \/ \E l \in LookupOutcomes, i \in InsertOutcomes :
           process_ach_transaction_record(p, l, i)

set_overdraft_limit(p, ids, limits) ==
    \/ \E a \in ids, l \in limits : set_overdraft_limit_begin(p, a, l)
    \/ set_overdraft_limit_update(p)
    \/ \E logged \in BOOLEAN : set_overdraft_limit_audit(p, logged)

update_account_status(p, ids, names) ==
    \/ \E a \in ids, s \in names : update_account_status_begin(p, a, s)
    \/ update_account_status_update(p)
    \/ \E logged \in BOOLEAN : update_account_status_audit(p, logged)

apply_fee(p, ids, names, fee_amounts) ==
    \/ \E a \in ids, n \in names, m \in fee_amounts : apply_fee_begin(p, a, n, m)
    \/ withdraw_select(p)
    \/ \E o \in AuditOutcomes : withdraw_update(p, o)
    \/ \E l \in LookupOutcomes, i \in InsertOutcomes : withdraw_record(p, l, i)
    \/ \E logged \in BOOLEAN : apply_fee_audit(p, logged)

check_account_balance_vs_transactions(p, ids) ==
    \/ \E a \in ids : check_account_balance_vs_transactions_begin(p, a)
    \/ check_account_balance_vs_transactions_sum(p)

get_transaction_history(p, ids, limits, offsets) ==
    \/ \E a \in ids, l \in limits, o \in offsets :
          get_transaction_history_begin(p, a, l, o)
    \/ get_transaction_history_query(p)

open_account_calls(p) ==
    \E c \in BOOLEAN, t \in {"checking", "bond"}, b \in Openings :
        open_account(p, c, t, b)

AllPairs == AccountIds \X AccountIds
DistinctPairs == {ft \in AllPairs : ft[1] # ft[2]}
PositiveAmounts == {m \in Amounts : m > 0}

\* The whole program from an empty database: any caller takes a step of any
\* operation, with valid and invalid arguments.
Next ==
    \E p \in Procs :
        \/ open_account_calls(p)
        \/ set_overdraft_limit(p, AccountIds, Limits)
        \/ update_account_status(p, AccountIds, StatusNames \cup {"dormant"})
        \/ deposit(p, AccountIds, Amounts)
        \/ withdraw(p, AccountIds, Amounts)
        \/ transfer_funds(p, AllPairs, Amounts)
        \/ process_wire_transfer(p, AccountIds, Amounts,
                                 {"incoming", "outgoing", "sideways"})
        \/ process_ach_transaction(p, AccountIds, Amounts,
                                   {"credit", "debit", "refund"})
        \/ apply_fee(p, AccountIds,
                     {"monthly_maintenance_fee", "courtesy_fee", "unknown_fee"},
                     FeeAmounts)

Spec == Init /\ [][Next]_vars

\* ---------------------------------------------------------------------------
\* The ledger: two opened accounts, the five money-moving operations with
\* valid arguments, run concurrently.  Account 1 was opened with balance 1
\* and given overdraft limit 1, account 2 was opened empty.
\* ---------------------------------------------------------------------------
LedgerInit ==
    /\ accounts = [a \in AccountIds |->
                      IF a = 1 THEN [OpenedRow(1) EXCEPT !.overdraft_limit = 1]
                      ELSE OpenedRow(0)]
    /\ Fresh(MaxOps)

LedgerNext ==
    \E p \in Procs :
        \/ deposit(p, AccountIds, PositiveAmounts)
        \/ withdraw(p, AccountIds, PositiveAmounts)
        \/ transfer_funds(p, DistinctPairs, PositiveAmounts)
        \/ process_wire_transfer(p, AccountIds, PositiveAmounts,
                                 {"incoming", "outgoing"})
        \/ process_ach_transaction(p, AccountIds, PositiveAmounts,
                                   {"credit", "debit"})

LedgerSpec == LedgerInit /\ [][LedgerNext]_vars

\* ---------------------------------------------------------------------------
\* Withdrawals only: account 1 opened with any balance, given any limit and
\* active or frozen; account 2 not opened.  The overdraft limit is fixed.
\* ---------------------------------------------------------------------------
WithdrawInit ==
    /\ \E b \in Openings, l \in {l \in Limits : l >= 0}, s \in {"active", "frozen"} :
          accounts = [a \in AccountIds |->
                         IF a = 1
                         THEN [OpenedRow(b) EXCEPT !.overdraft_limit = l,
                                                   !.status_name = s]
                         ELSE NoRow]
    /\ Fresh(MaxOps + 1)

WithdrawNext == \E p \in Procs : withdraw(p, AccountIds, Amounts)

WithdrawSpec == WithdrawInit /\ [][WithdrawNext]_vars

\* ---------------------------------------------------------------------------
\* Transfers only, between two opened accounts, under the scheduling the
\* database gives: a connection that can run its next statement does so.
\* ---------------------------------------------------------------------------
TransferInit ==
    /\ \E b \in Openings, l \in {0, 1} :
          accounts = [a \in AccountIds |->
                         IF a = 1 THEN [OpenedRow(b) EXCEPT !.overdraft_limit = l]
                         ELSE OpenedRow(1)]
    /\ Fresh(MaxOps + 1)

TransferNext == \E p \in Procs : transfer_funds(p, DistinctPairs, PositiveAmounts)

TransferSpec ==
    /\ TransferInit
    /\ [][TransferNext]_vars
    /\ \A p \in Procs : WF_vars(transfer_funds_steps(p))

\* ---------------------------------------------------------------------------
\* Account administration next to deposits and withdrawals: account 1 opened
\* with balance 0 or 1 and given limit 0 or 1, account 2 not yet opened or
\* opened with balance 1.
\* ---------------------------------------------------------------------------
AdminInit ==
    /\ \E b \in {0, 1}, l \in {0, 1}, second \in {NoRow, OpenedRow(1)} :
          accounts = [a \in AccountIds |->
                         IF a = 1 THEN [OpenedRow(b) EXCEPT !.overdraft_limit = l]
                         ELSE second]
    /\ Fresh(MaxOps)

AdminNext ==
    \E p \in Procs :
        \/ open_account_calls(p)
        \/ set_overdraft_limit(p, AccountIds, Limits)
        \/ update_account_status(p, AccountIds, StatusNames \cup {"dormant"})
        \/ deposit(p, AccountIds, PositiveAmounts)
        \/ withdraw(p, AccountIds, PositiveAmounts)

AdminSpec == AdminInit /\ [][AdminNext]_vars

\* ---------------------------------------------------------------------------
\* Fees next to status changes: account 1 opened with balance 1, given limit
\* 0 or 1, active or frozen; account 2 not opened.
\* ---------------------------------------------------------------------------
FeeInit ==
    /\ \E l \in {0, 1}, s \in {"active", "frozen"} :
          accounts = [a \in AccountIds |->
                         IF a = 1
                         THEN [OpenedRow(1) EXCEPT !.overdraft_limit = l,
                                                   !.status_name = s]
                         ELSE NoRow]
    /\ Fresh(MaxOps)

FeeNext ==
    \E p \in Procs :
        \/ apply_fee(p, AccountIds,
                     {"monthly_maintenance_fee", "courtesy_fee", "unknown_fee"},
                     FeeAmounts)
        \/ update_account_status(p, {1}, {"active", "frozen"})

FeeSpec == FeeInit /\ [][FeeNext]_vars

\* ---------------------------------------------------------------------------
\* Failing calls: account 1 opened with balance 1 and given limit 0 or 1;
\* account 2 not opened, active or frozen with balance 1, or closed.  The five
\* money-moving operations are called with valid and invalid arguments.
\* ---------------------------------------------------------------------------
FailureAmounts == {0, 2}

FailureInit ==
    /\ \E l \in {0, 1},
          second \in {NoRow, OpenedRow(1),
                      [OpenedRow(1) EXCEPT !.status_name = "frozen"],
                      [OpenedRow(0) EXCEPT !.status_name = "closed"]} :
          accounts = [a \in AccountIds |->
                         IF a = 1 THEN [OpenedRow(1) EXCEPT !.overdraft_limit = l]
                         ELSE second]
    /\ Fresh(MaxOps)

FailureNext ==
    \E p \in Procs :
        \/ deposit(p, AccountIds, FailureAmounts)
        \/ withdraw(p, AccountIds, FailureAmounts)
        \/ transfer_funds(p, AllPairs, FailureAmounts)
        \/ process_wire_transfer(p, AccountIds, FailureAmounts,
                                 {"incoming", "outgoing", "sideways"})
        \/ process_ach_transaction(p, AccountIds, FailureAmounts,
                                   {"credit", "debit", "refund"})

FailureSpec == FailureInit /\ [][FailureNext]_vars

\* ---------------------------------------------------------------------------
\* Twin accounts: accounts 1 and 2 are opened alike (balance 0 or 1, limit 0
\* or 1, active or frozen).  One caller runs withdraw and deposit on account
\* 1, the other runs ACH and wire transactions on account 2.
\* ---------------------------------------------------------------------------
TwinInit ==
    /\ \E b \in {0, 1}, l \in {0, 1}, s \in {"active", "frozen"} :
          accounts = [a \in AccountIds |->
                         [OpenedRow(b) EXCEPT !.overdraft_limit = l,
                                              !.status_name = s]]
    /\ Fresh(MaxOps)

TwinNext ==
    \/ withdraw("p1", {1}, Amounts)
    \/ deposit("p1", {1}, Amounts)
    \/ process_ach_transaction("p2", {2}, Amounts, {"credit", "debit"})
    \/ process_wire_transfer("p2", {2}, Amounts, {"incoming", "outgoing"})

TwinSpec == TwinInit /\ [][TwinNext]_vars

\* ---------------------------------------------------------------------------
\* Reconciliation next to account opening, deposits and withdrawals: account
\* 1 opened with balance 0 or 1, account 2 not yet opened.
\* ---------------------------------------------------------------------------
ValidatorInit ==
    /\ \E b \in {0, 1} :
          accounts = [a \in AccountIds |-> IF a = 1 THEN OpenedRow(b) ELSE NoRow]
    /\ Fresh(MaxOps)

ValidatorNext ==
    \E p \in Procs :
        \/ open_account_calls(p)
        \/ deposit(p, AccountIds, PositiveAmounts)
        \/ withdraw(p, AccountIds, PositiveAmounts)
        \/ check_account_balance_vs_transactions(p, AccountIds)

ValidatorSpec == ValidatorInit /\ [][ValidatorNext]_vars

\* ---------------------------------------------------------------------------
\* The five money-moving operations under the scheduling the database gives:
\* a connection that can run its next statement does so.  Account 1 opened
\* with balance 0, account 2 not opened or opened with balance 1; every call
\* moves an amount of 1.
\* ---------------------------------------------------------------------------
ProgressInit ==
    /\ \E second \in {NoRow, OpenedRow(1)} :
          accounts = [a \in AccountIds |-> IF a = 1 THEN OpenedRow(0) ELSE second]
    /\ Fresh(MaxOps)

\* the statements of a started operation
money_steps(p) ==
    \/ deposit_status(p)
    \/ deposit_update(p)
    \/ \E l \in LookupOutcomes, i \in InsertOutcomes : deposit_record(p, l, i)
    \/ withdraw_select(p)
    \/ \E o \in AuditOutcomes : withdraw_update(p, o)
    \/ \E l \in LookupOutcomes, i \in InsertOutcomes : withdraw_record(p, l, i)
    \/ transfer_funds_steps(p)
    \/ process_wire_transfer_select(p)
    \/ \E l \in LookupOutcomes, o \in AuditOutcomes :
          process_wire_transfer_update(p, l, o)
    \/ \E i \in InsertOutcomes : process_wire_transfer_record(p, i)
    \/ process_ach_transaction_select(p)
    \/ \E o \in AuditOutcomes : process_ach_transaction_update(p, o)
    \/ \E l \in LookupOutcomes, i \in InsertOutcomes :
          process_ach_transaction_record(p, l, i)

ProgressNext ==
    \E p \in Procs :
        \/ deposit(p, AccountIds, {1})
        \/ withdraw(p, AccountIds, {1})
        \/ transfer_funds(p, DistinctPairs, {1})
        \/ process_wire_transfer(p, AccountIds, {1},
                                 {"incoming", "outgoing"})
        \/ process_ach_transaction(p, AccountIds, {1},
                                   {"credit", "debit"})

ProgressSpec ==
    /\ ProgressInit
    /\ [][ProgressNext]_vars
    /\ \A p \in Procs : WF_vars(money_steps(p))

\* ---------------------------------------------------------------------------
\* Reading the history of a table that deposits of 1 have filled: up to
\* MaxRows rows for accounts 1 and 2, with timestamps 1 or 2 in any order of
\* transaction_id (the timestamp is taken when a unit starts, the id when it
\* inserts).  Account 2 may also be missing, and has no rows then.
\* ---------------------------------------------------------------------------
Timestamps == {1, 2}

\* the row a deposit of 1 to account_id has inserted at transaction_timestamp
deposited_row(account_id, transaction_timestamp) ==
    [account_id |-> account_id, type_name |-> "deposit", amount |-> 1,
     related_account_id |-> NoAccount,
     transaction_timestamp |-> transaction_timestamp]

HistoryInit ==
    /\ \E n \in 0 .. MaxRows, second \in BOOLEAN :
          \E rows \in [1 .. n -> {deposited_row(a, t) :
                                    a \in (IF second THEN AccountIds ELSE {1}),
                                    t \in Timestamps}] :
              /\ transactions = rows
              /\ accounts = [a \in AccountIds |->
                                IF a = 2 /\ ~second THEN NoRow
                                ELSE [OpenedRow(0) EXCEPT
                                         !.balance = SumAmounts(rows, a)]]
    /\ audit_log = <<>>
    /\ locks = [a \in AccountIds |-> "free"]
    /\ proc = [p \in Procs |-> IdleProc]
    /\ nops = MaxOps

HistoryNext ==
    \E p \in Procs : get_transaction_history(p, AccountIds, {1, 2}, {0, 1, 2})

HistorySpec == HistoryInit /\ [][HistoryNext]_vars

\* ---------------------------------------------------------------------------
\* Calls whose preconditions fail together: account 1 opened with balance 1,
\* active or frozen; account 2 not opened, active or frozen with balance 1,
\* or closed.  transfer_funds and withdraw are called with every pair of ids
\* and with amounts 0, 1 and 2.
\* ---------------------------------------------------------------------------
PrecedenceInit ==
    /\ \E s \in {"active", "frozen"},
          second \in {NoRow, OpenedRow(1),
                      [OpenedRow(1) EXCEPT !.status_name = "frozen"],
                      [OpenedRow(0) EXCEPT !.status_name = "closed"]} :
          accounts = [a \in AccountIds |->
                         IF a = 1 THEN [OpenedRow(1) EXCEPT !.status_name = s]
                         ELSE second]
    /\ Fresh(MaxOps)

PrecedenceNext ==
    \E p \in Procs :
        \/ transfer_funds(p, AllPairs, Amounts)
        \/ withdraw(p, AccountIds, Amounts)

PrecedenceSpec == PrecedenceInit /\ [][PrecedenceNext]_vars

\* ---------------------------------------------------------------------------
\* Status changes from every status: account 1 opened active, frozen or
\* closed, with balance 1 unless closed; account 2 not opened.
\* update_account_status is called with the three status names, next to
\* deposits of 1 and 2.
\* ---------------------------------------------------------------------------
ReopenInit ==
    /\ \E first \in {OpenedRow(0), OpenedRow(1),
                     [OpenedRow(0) EXCEPT !.status_name = "frozen"],
                     [OpenedRow(1) EXCEPT !.status_name = "frozen"],
                     [OpenedRow(0) EXCEPT !.status_name = "closed"]} :
          accounts = [a \in AccountIds |-> IF a = 1 THEN first ELSE NoRow]
    /\ Fresh(MaxOps)

ReopenNext ==
    \E p \in Procs :
        \/ update_account_status(p, AccountIds, StatusNames)
        \/ deposit(p, AccountIds, PositiveAmounts)

ReopenSpec == ReopenInit /\ [][ReopenNext]_vars

\* ===========================================================================
\* Properties
\* ===========================================================================
MoneyOps == {"deposit", "withdraw", "transfer_funds", "process_wire_transfer",
             "process_ach_transaction"}

\* caller p takes this step
Steps(p) == proc'[p] # proc[p]

\* caller p is inside an operation
InProgress(p) == proc[p].pc # "idle"

\* this step ends p's operation
Finishes(p) == InProgress(p) /\ proc'[p].pc = "idle"

\* the records of account a
RecordsOf(a) == {i \in DOMAIN transactions : transactions[i].account_id = a}

\* ---------------------------------------------------------------------------
\* C1 (as amended).  In every state reached by deposit, withdraw,
\* transfer_funds, process_ach_transaction and process_wire_transfer calls,
\* successful or failed, every account's stored balance equals the balance it
\* was opened with plus the sum of the amounts of its transaction records.
\* ---------------------------------------------------------------------------
C1_BalanceIsOpeningPlusRecords ==
    \A a \in AccountIds :
        Exists(a) =>
            accounts[a].balance =
                accounts[a].initial_balance + SumAmounts(transactions, a)

\* C1 as stated: once an account has records, its balance is their sum
C1_BalanceIsSumOfRecords ==
    \A a \in AccountIds :
        (Exists(a) /\ RecordsOf(a) # {}) =>
            accounts[a].balance = SumAmounts(transactions, a)

\* an account opened with a non-zero balance has a debit record, and another
\* call on it has failed after updating its balance
C1_Witness ==
    \E a \in AccountIds :
        /\ accounts[a].initial_balance # 0
        /\ \E i \in RecordsOf(a) : transactions[i].amount < 0
        /\ \E p \in Procs :
              /\ proc[p].account_id = a
              /\ proc[p].result \in {"TransactionError", "InvalidTransactionTypeError"}

\* ---------------------------------------------------------------------------
\* C2.  Every active account satisfies balance >= -overdraft_limit in every
\* state reached by open_account, set_overdraft_limit, update_account_status
\* and the money-moving operations.
\* ---------------------------------------------------------------------------
C2_ActiveWithinOverdraft ==
    \A a \in AccountIds :
        (Exists(a) /\ accounts[a].status_name = "active") =>
            accounts[a].balance >= -accounts[a].overdraft_limit

\* ---------------------------------------------------------------------------
\* C3.  Every step of a transfer_funds call leaves the committed balances and
\* records untouched, or commits both balance changes and both transfer
\* records at once: no committed state holds part of a transfer.
\* ---------------------------------------------------------------------------
C3_TransferAllOrNothing ==
    [][\A p \in Procs :
          (proc[p].op = "transfer_funds" /\ InProgress(p) /\ Steps(p)) =>
              LET from == proc[p].account_id
                  to == proc[p].to_account_id
                  m == proc[p].amount
              IN \/ /\ accounts' = accounts
                    /\ transactions' = transactions
                 \/ /\ accounts' = [accounts EXCEPT ![from].balance = @ - m,
                                                    ![to].balance = @ + m]
                    /\ transactions' = transactions \o
                           << [account_id |-> from, type_name |-> "transfer",
                               amount |-> -m, related_account_id |-> to],
                              [account_id |-> to, type_name |-> "transfer",
                               amount |-> m, related_account_id |-> from] >>
                    /\ proc'[p].result = "ok"]_vars

\* one transfer has committed and another failed after its balance updates
C3_Witness ==
    \E p, q \in Procs :
        /\ proc[p].op = "transfer_funds" /\ proc[p].result = "ok"
        /\ proc[q].op = "transfer_funds"
        /\ proc[q].result \in {"TransactionError", "InvalidTransactionTypeError"}
        /\ Len(transactions) = 2

\* ---------------------------------------------------------------------------
\* C4.  With a fixed overdraft limit, under any interleaving of withdraw
\* calls no committed balance is below -overdraft_limit, and two withdrawals
\* of one account whose amounts together exceed the opening balance plus the
\* limit never both commit.
\* ---------------------------------------------------------------------------
C4_ConcurrentWithdrawalsKeepFloor ==
    /\ \A a \in AccountIds :
          Exists(a) => accounts[a].balance >= -accounts[a].overdraft_limit
    /\ \A p, q \in Procs :
          (/\ p # q
           /\ proc[p].pc = "idle" /\ proc[p].op = "withdraw" /\ proc[p].result = "ok"
           /\ proc[q].pc = "idle" /\ proc[q].op = "withdraw" /\ proc[q].result = "ok"
           /\ proc[p].account_id = proc[q].account_id)
          => proc[p].amount + proc[q].amount
                 <= accounts[proc[p].account_id].initial_balance
                    + accounts[proc[p].account_id].overdraft_limit

\* two withdrawals of one account, each within the funds the account was
\* opened with and together beyond them: one committed, the other was refused
C4_Witness ==
    \E p, q \in Procs :
        LET a == proc[p].account_id
            funds == accounts[a].initial_balance + accounts[a].overdraft_limit
        IN /\ p # q /\ Exists(a) /\ proc[q].account_id = a
           /\ proc[p].op = "withdraw" /\ proc[p].result = "ok"
           /\ proc[q].op = "withdraw" /\ proc[q].result = "InsufficientFundsError"
           /\ proc[p].amount <= funds /\ proc[q].amount <= funds
           /\ proc[p].amount + proc[q].amount > funds
           /\ Len(transactions) = 1

\* ---------------------------------------------------------------------------
\* C5.  Concurrent transfer_funds calls, reciprocal ones included, never
\* reach a state where each of two transfers holds a row lock the other is
\* waiting for, and every started transfer eventually commits or fails.
\* ---------------------------------------------------------------------------
\* the account whose row lock p is waiting for, if any
WaitsFor(p, a) ==
    /\ Exists(a)
    /\ locks[a] \notin {"free", p}
    /\ \/ /\ proc[p].pc = "transfer_funds_select1"
          /\ a = acc_ids(proc[p].account_id, proc[p].to_account_id)[1]
       \/ /\ proc[p].pc = "transfer_funds_select2"
          /\ a = acc_ids(proc[p].account_id, proc[p].to_account_id)[2]

LockCycle ==
    \E p, q \in Procs : \E a, b \in AccountIds :
        /\ p # q
        /\ locks[a] = p /\ WaitsFor(p, b)
        /\ locks[b] = q /\ WaitsFor(q, a)

C5_TransfersNeverDeadlock ==
    /\ [] ~LockCycle
    /\ \A p \in Procs :
          (proc[p].op = "transfer_funds" /\ InProgress(p)) ~> (proc[p].pc = "idle")

\* reciprocal transfers in flight: one holds the lock of the smaller id, the
\* other waits for it
C5_Witness ==
    \E p, q \in Procs :
        /\ proc[p].op = "transfer_funds" /\ proc[q].op = "transfer_funds"
        /\ proc[p].account_id = proc[q].to_account_id
        /\ proc[p].to_account_id = proc[q].account_id
        /\ proc[p].pc = "transfer_funds_select2"
        /\ locks[acc_ids(proc[p].account_id, proc[p].to_account_id)[1]] = p
        /\ proc[q].pc = "transfer_funds_select1"
        /\ \E a \in AccountIds : WaitsFor(q, a)

\* ---------------------------------------------------------------------------
\* C6.  A withdraw of a positive amount that has locked an active account is
\* refused with InsufficientFundsError exactly when amount > balance +
\* overdraft_limit, and then leaves the balances, records and audit log as
\* they were; a committed withdrawal of exactly balance + overdraft_limit
\* leaves the balance at -overdraft_limit.
\* ---------------------------------------------------------------------------
C6_InsufficientFundsExactly ==
    [][\A p \in Procs :
          LET a == proc[p].account_id
              funds == accounts[a].balance + accounts[a].overdraft_limit
              refused == proc'[p].result = "InsufficientFundsError"
          IN /\ (/\ proc[p].pc = "withdraw_update" /\ Steps(p)
                 /\ accounts[a].status_name = "active")
                => /\ refused <=> proc[p].amount > funds
                   /\ refused => /\ accounts' = accounts
                                 /\ transactions' = transactions
                                 /\ audit_log' = audit_log
             /\ (/\ proc[p].pc = "withdraw_record" /\ Steps(p)
                 /\ proc'[p].result = "ok" /\ proc[p].amount = funds)
                => accounts'[a].balance = -accounts[a].overdraft_limit]_vars

\* a withdrawal of exactly balance + limit has committed on an account with a
\* positive limit, and a later one was refused
C6_Witness ==
    \E p, q \in Procs :
        /\ proc[p].op = "withdraw" /\ proc[p].result = "ok"
        /\ proc[q].op = "withdraw" /\ proc[q].result = "InsufficientFundsError"
        /\ proc[p].account_id = 1 /\ proc[q].account_id = 1
        /\ accounts[1].overdraft_limit > 0
        /\ accounts[1].balance = -accounts[1].overdraft_limit
        /\ proc[p].amount
              = accounts[1].initial_balance + accounts[1].overdraft_limit

\* ---------------------------------------------------------------------------
\* C7.  Under any interleaving of money-moving operations, the step that ends
\* an operation moves each committed balance by exactly that operation's
\* signed amount when it committed and not at all when it failed, and no
\* other step changes a committed balance: no update is lost, and a read
\* right after a successful operation sees its effect.
\* ---------------------------------------------------------------------------
\* the signed amount the call of p applies to account a
Effect(p, a) ==
    LET c == proc[p]
        debit == \/ c.op = "withdraw"
                 \/ c.op = "process_wire_transfer" /\ c.arg = "outgoing"
                 \/ c.op = "process_ach_transaction" /\ c.arg = "debit"
    IN IF c.op = "transfer_funds"
       THEN (IF a = c.account_id THEN -c.amount ELSE 0)
            + (IF a = c.to_account_id THEN c.amount ELSE 0)
       ELSE IF a # c.account_id THEN 0
       ELSE IF debit THEN -c.amount ELSE c.amount

C7_NoLostUpdate ==
    [][/\ \A p \in Procs :
             (Finishes(p) /\ proc[p].op \in MoneyOps) =>
                 \A a \in AccountIds :
                     accounts'[a].balance =
                         accounts[a].balance
                         + (IF proc'[p].result = "ok" THEN Effect(p, a) ELSE 0)
       /\ (\A p \in Procs : ~Finishes(p)) =>
              \A a \in AccountIds : accounts'[a].balance = accounts[a].balance]_vars

\* a deposit and a debit of the same account ran at the same time: one has
\* committed while the other still holds its uncommitted balance
C7_Witness ==
    \E p, q \in Procs :
        /\ proc[p].op = "deposit" /\ proc[p].result = "ok"
        /\ proc[q].op \in MoneyOps \ {"deposit"}
        /\ proc[q].account_id = proc[p].account_id
        /\ proc[q].account_id \in proc[q].dirty
        /\ accounts[proc[p].account_id].balance
              = accounts[proc[p].account_id].initial_balance + proc[p].amount

\* ---------------------------------------------------------------------------
\* C8.  A committed transfer_funds(from, to, amount) appends exactly two
\* records of type transfer, -amount on from naming to and +amount on to
\* naming from; in every state the transfer records are such pairs.
\* ---------------------------------------------------------------------------
\* the transfer records on account a naming account b with amount m
TransferLegs(a, b, m) ==
    {i \in DOMAIN transactions :
        transactions[i] = [account_id |-> a, type_name |-> "transfer",
                           amount |-> m, related_account_id |-> b]}

C8_TransferRecordsPaired ==
    \A i \in DOMAIN transactions :
        LET r == transactions[i]
        IN r.type_name = "transfer" =>
              /\ r.amount # 0
              /\ r.related_account_id \in AccountIds \ {r.account_id}
              /\ Cardinality(TransferLegs(r.account_id, r.related_account_id, r.amount))
                    = Cardinality(TransferLegs(r.related_account_id, r.account_id,
                                               -r.amount))

\* transfers in both directions have committed
C8_Witness ==
    /\ \E m \in PositiveAmounts : TransferLegs(1, 2, -m) # {}
    /\ \E m \in PositiveAmounts : TransferLegs(2, 1, -m) # {}
    /\ Len(transactions) = 4

\* ---------------------------------------------------------------------------
\* C9.  update_account_status(id, 'closed') on an existing account fails with
\* AccountStatusError, changing nothing, when the balance it reads is not
\* zero; when it is zero the call goes on to set the status to closed and
\* returns success.
\* ---------------------------------------------------------------------------
C9_CloseRequiresZeroBalance ==
    [][\A p \in Procs :
          /\ (/\ proc[p].pc = "idle" /\ Steps(p)
              /\ proc'[p].op = "update_account_status" /\ proc'[p].arg = "closed"
              /\ Exists(proc'[p].account_id))
             => LET a == proc'[p].account_id
                IN IF accounts[a].balance # 0
                   THEN /\ proc'[p].result = "AccountStatusError"
                        /\ proc'[p].pc = "idle"
                        /\ accounts' = accounts
                   ELSE /\ proc'[p].pc = "update_account_status_update"
                        /\ accounts' = accounts
          /\ (/\ proc[p].pc = "update_account_status_update" /\ Steps(p)
              /\ proc[p].arg = "closed")
             => /\ accounts' = [accounts EXCEPT
                                   ![proc[p].account_id].status_name = "closed"]
                /\ proc'[p].pc = "update_account_status_audit"
          /\ (/\ proc[p].pc = "update_account_status_audit" /\ Steps(p)
              /\ proc[p].arg = "closed")
             => /\ accounts' = accounts
                /\ proc'[p].result = "ok"]_vars

\* one account was closed at balance zero, and closing another with a balance
\* was refused and left it active
C9_Witness ==
    \E p, q \in Procs :
        /\ proc[p].op = "update_account_status" /\ proc[p].arg = "closed"
        /\ proc[p].result = "ok"
        /\ accounts[proc[p].account_id].status_name = "closed"
        /\ proc[q].op = "update_account_status" /\ proc[q].arg = "closed"
        /\ proc[q].result = "AccountStatusError"
        /\ accounts[proc[q].account_id].balance # 0
        /\ accounts[proc[q].account_id].status_name = "active"

\* ---------------------------------------------------------------------------
\* C10.  An overdraft-causing debit and its OVERDRAFT_USED audit entry are
\* committed together or not at all: each step commits such a debit on an
\* account exactly when it commits an OVERDRAFT_USED entry for it.
\* ---------------------------------------------------------------------------
C10_OverdraftAuditWithDebit ==
    [][\A a \in AccountIds :
          OverdraftUsed(accounts[a].balance, accounts'[a].balance)
              <=> audit_log' = Append(audit_log, log_event("OVERDRAFT_USED", a))]_vars

\* the audit entries this step commits
Appended ==
    {audit_log'[i] : i \in (Len(audit_log) + 1) .. Len(audit_log')}

\* ---------------------------------------------------------------------------
\* C11.  A status update and its ACCOUNT_STATUS_CHANGE entry, and a fee debit
\* and its FEE_APPLIED entry, are committed by the same step: each step
\* commits the change of an account exactly when it commits the audit entry
\* documenting it.
\* ---------------------------------------------------------------------------
C11_AuditInSameUnit ==
    [][\A a \in AccountIds :
          /\ (\E p \in Procs :
                  /\ proc[p].pc = "update_account_status_update" /\ Steps(p)
                  /\ proc[p].account_id = a)
             <=> log_event("ACCOUNT_STATUS_CHANGE", a) \in Appended
          /\ (\E p \in Procs :
                  /\ proc[p].op = "apply_fee" /\ proc[p].account_id = a
                  /\ proc[p].pc = "withdraw_record"
                  /\ proc'[p].pc = "apply_fee_audit")
             <=> log_event("FEE_APPLIED", a) \in Appended]_vars

\* the call of p debits its account_id
IsDebit(p) ==
    \/ proc[p].op \in {"withdraw", "transfer_funds"}
    \/ proc[p].op = "process_wire_transfer" /\ proc[p].arg = "outgoing"
    \/ proc[p].op = "process_ach_transaction" /\ proc[p].arg = "debit"

\* ---------------------------------------------------------------------------
\* C12.  A successful withdraw, transfer_funds, ACH debit or outgoing wire
\* commits exactly one OVERDRAFT_USED entry for the debited account when the
\* balance it leaves is negative, and none when it is not.
\* ---------------------------------------------------------------------------
C12_OneEntryPerOverdraft ==
    [][\A p \in Procs :
          (Finishes(p) /\ proc'[p].result = "ok" /\ IsDebit(p)) =>
              LET a == proc[p].account_id
                  entries == {i \in (Len(audit_log) + 1) .. Len(audit_log') :
                                 audit_log'[i] = log_event("OVERDRAFT_USED", a)}
              IN Cardinality(entries) = IF accounts'[a].balance < 0 THEN 1 ELSE 0]_vars

\* ---------------------------------------------------------------------------
\* C13.  A money-moving call that ends in an error, typed or wrapped as
\* TransactionError, leaves every balance, transaction record and audit entry
\* as it was: only the step that ends a call with success changes the
\* committed state, also when the failure comes after the balance update.
\* ---------------------------------------------------------------------------
C13_FailedCallChangesNothing ==
    [][\A p \in Procs :
          (Steps(p) /\ ~(Finishes(p) /\ proc'[p].result = "ok")) =>
              /\ accounts' = accounts
              /\ transactions' = transactions
              /\ audit_log' = audit_log]_vars

\* one call failed after its balance update, another was refused with a
\* typed error, and the database is as it was opened
C13_Witness ==
    \E p, q \in Procs :
        /\ p # q
        /\ proc[p].op \in {"deposit", "withdraw"}
        /\ proc[p].result \in {"TransactionError", "InvalidTransactionTypeError"}
        /\ proc[q].result \in {"AccountNotFoundError", "InsufficientFundsError",
                                "AccountNotActiveOrFrozenError", "InvalidAmountError"}
        /\ \A a \in AccountIds : accounts[a].balance = accounts[a].initial_balance
        /\ transactions = <<>> /\ audit_log = <<>>

\* ---------------------------------------------------------------------------
\* C15.  deposit, withdraw, process_ach_transaction and process_wire_transfer
\* on a frozen or closed account, and transfer_funds with a frozen or closed
\* source or destination, fail with AccountNotActiveOrFrozenError at their
\* status test and change no balance and append no record.
\* ---------------------------------------------------------------------------
Inactive(a) == accounts[a].status_name \in {"frozen", "closed"}

C14_DepositEffect ==
    [][\A p \in Procs :
          (proc[p].op = "deposit" /\ InProgress(p) /\ Steps(p)) =>
              LET a == proc[p].account_id
                  m == proc[p].amount
              IN /\ (/\ proc[p].pc = "deposit_status" /\ Exists(a)
                      /\ accounts[a].status_name = "active")
                     => proc'[p].pc = "deposit_update"
                 /\ \/ /\ proc'[p].result # "ok"
                       /\ accounts' = accounts
                       /\ transactions' = transactions
                       /\ audit_log' = audit_log
                    \/ /\ proc'[p].result = "ok"
                       /\ m > 0
                       /\ accounts' = [accounts EXCEPT ![a].balance = @ + m]
                       /\ transactions' = Append(transactions,
                              [account_id |-> a, type_name |-> "deposit",
                               amount |-> m, related_account_id |-> NoAccount])
                       /\ audit_log' = audit_log]_vars

\* a deposit has committed on an account holding its opening balance plus
\* the amount, while another deposit to it failed
C14_Witness ==
    \E p, q \in Procs :
        /\ proc[p].op = "deposit" /\ proc[p].result = "ok"
        /\ proc[q].op = "deposit" /\ proc[q].account_id = proc[p].account_id
        /\ proc[q].result \in {"TransactionError", "InvalidTransactionTypeError"}
        /\ accounts[proc[p].account_id].balance
              = accounts[proc[p].account_id].initial_balance + proc[p].amount
        /\ Len(transactions) = 1

\* ---------------------------------------------------------------------------
\* C16.  Run from the same (status, balance, overdraft_limit) with the same
\* amount, an ACH debit or outgoing wire ends as withdraw does, and an ACH
\* credit or incoming wire as deposit does: the same acceptance or the same
\* refusal, the same balance and the same record amount, with the record
\* type (ach_debit, ach_credit, wire_transfer) the only difference, and an
\* OVERDRAFT_USED entry only for a balance left negative.
\* ---------------------------------------------------------------------------
\* outcomes decided by the arguments and the account alone
Decided == {"ok", "InvalidAmountError", "AccountNotActiveOrFrozenError",
            "InsufficientFundsError"}

\* the record type of the call c
RecordType(c) ==
    CASE c.op = "withdraw" -> "withdrawal"
      [] c.op = "deposit" -> "deposit"
      [] c.op = "process_wire_transfer" -> "wire_transfer"
      [] c.op = "process_ach_transaction" /\ c.arg = "debit" -> "ach_debit"
      [] OTHER -> "ach_credit"

\* the OVERDRAFT_USED entries of account a
OverdraftEntries(a) ==
    {i \in DOMAIN audit_log : audit_log[i] = log_event("OVERDRAFT_USED", a)}

C16_VariantsActAsWithdrawAndDeposit ==
    LET c1 == proc["p1"]
        c2 == proc["p2"]
        alike == \/ c1.op = "withdraw" /\ c2.arg \in {"debit", "outgoing"}
                 \/ c1.op = "deposit" /\ c2.arg \in {"credit", "incoming"}
        committed(c) == IF c.result = "ok" THEN 1 ELSE 0
    IN (/\ c1.pc = "idle" /\ c2.pc = "idle"
        /\ alike /\ c1.amount = c2.amount
        /\ c1.result \in Decided /\ c2.result \in Decided
        /\ Len(transactions) = committed(c1) + committed(c2))
       => /\ c1.result = c2.result
          /\ accounts[1].balance = accounts[2].balance
          /\ \A i \in RecordsOf(1), j \in RecordsOf(2) :
                /\ transactions[i].amount = transactions[j].amount
                /\ transactions[i].related_account_id
                      = transactions[j].related_account_id
                /\ transactions[i].type_name = RecordType(c1)
                /\ transactions[j].type_name = RecordType(c2)
          /\ \A a \in AccountIds :
                /\ Cardinality(OverdraftEntries(a)) <= 1
                /\ OverdraftEntries(a) # {} => accounts[a].balance < 0
          /\ c1.op = "deposit" => audit_log = <<>>

\* a withdrawal and an outgoing wire or ACH debit of the same amount both
\* committed into overdraft, each with its audit entry
C16_Witness ==
    /\ proc["p1"].op = "withdraw" /\ proc["p1"].result = "ok"
    /\ proc["p2"].arg \in {"debit", "outgoing"} /\ proc["p2"].result = "ok"
    /\ proc["p1"].amount = proc["p2"].amount
    /\ accounts[1].balance < 0 /\ accounts[2].balance = accounts[1].balance
    /\ OverdraftEntries(1) # {} /\ OverdraftEntries(2) # {}
    /\ Len(transactions) = 2

\* the amount an apply_fee call c resolves: fee_amount when given, else the
\* default amount of its fee type
Resolved(c) == IF c.fee_amount = <<>> THEN fee_types[c.arg] ELSE c.fee_amount[1]

\* this step commits the withdraw that the apply_fee call of p made
FeeCommits(p) ==
    /\ proc[p].op = "apply_fee"
    /\ proc[p].pc = "withdraw_record"
    /\ proc'[p].pc = "apply_fee_audit"

\* ---------------------------------------------------------------------------
\* C17.  The step that commits a successful apply_fee does what
\* withdraw(account, a) does, a being fee_amount when given and the fee type's
\* default amount otherwise: it lowers the balance of the account by a, adds
\* one withdrawal record of amount -a, and commits at most one audit entry,
\* an OVERDRAFT_USED of the account, and that only when the balance is left
\* negative.  The rest of the call changes neither balance nor record, and
\* adds to the audit trail nothing but FEE_APPLIED.
\* ---------------------------------------------------------------------------
C17_FeeActsAsWithdraw ==
    [][\A p \in Procs :
          /\ FeeCommits(p) =>
                LET a == proc[p].account_id
                    m == Resolved(proc[p])
                IN /\ accounts' = [accounts EXCEPT ![a].balance = @ - m]
                   /\ transactions' =
                         Append(transactions,
                                [account_id |-> a, type_name |-> "withdrawal",
                                 amount |-> -m, related_account_id |-> NoAccount])
                   /\ Len(audit_log') <= Len(audit_log) + 1
                   /\ Appended \subseteq {log_event("OVERDRAFT_USED", a)}
                   /\ Appended # {} => accounts'[a].balance < 0
          /\ (proc[p].op = "apply_fee" /\ Steps(p) /\ ~FeeCommits(p)) =>
                /\ accounts' = accounts
                /\ transactions' = transactions
                /\ Appended \subseteq {log_event("FEE_APPLIED", proc[p].account_id)}]_vars

\* a fee given as 2, over a default of 1, was applied to a balance of 1: the
\* balance is -1, the record is -2, and the overdraft was audited
C17_Witness ==
    \E p \in Procs :
        /\ proc[p].op = "apply_fee" /\ proc[p].pc = "idle"
        /\ proc[p].result = "ok"
        /\ proc[p].fee_amount = <<2>> /\ fee_types[proc[p].arg] = 1
        /\ accounts[1].balance = -1
        /\ \E i \in RecordsOf(1) : transactions[i].amount = -2
        /\ \E i \in DOMAIN audit_log : audit_log[i] = log_event("OVERDRAFT_USED", 1)

C19_FeeRefusedBeforeWithdraw ==
    [][\A p \in Procs :
          (proc[p].pc = "idle" /\ proc'[p].op = "apply_fee" /\ Steps(p)) =>
              LET c == proc'[p]
                  unknown == c.arg \notin DOMAIN fee_types
              IN /\ unknown =>
                       /\ c.result = "FeeTypeNotFoundError"
                       /\ c.pc = "idle"
                 /\ (~unknown /\ Resolved(c) <= 0) =>
                       /\ c.result = "FeeError"
                       /\ c.detail = "Fee amount must be positive"
                       /\ c.pc = "idle"
                 /\ (~unknown /\ Resolved(c) > 0) => c.pc = "withdraw_select"
                 /\ (unknown \/ Resolved(c) <= 0) =>
                       /\ accounts' = accounts
                       /\ transactions' = transactions
                       /\ audit_log' = audit_log
                       /\ locks' = locks]_vars

\* one fee was refused for its unknown type, another for an amount given as
\* zero, and nothing was recorded
C19_Witness ==
    \E p, q \in Procs :
        /\ proc[p].op = "apply_fee" /\ proc[p].result = "FeeTypeNotFoundError"
        /\ proc[q].op = "apply_fee" /\ proc[q].result = "FeeError"
        /\ proc[q].fee_amount = <<0>>
        /\ proc[q].detail = "Fee amount must be positive"
        /\ transactions = <<>> /\ audit_log = <<>>
        /\ accounts[1].balance = accounts[1].initial_balance

\* ---------------------------------------------------------------------------
\* C20.  In every state, verify_ledger_integrity returns (balanced, sum) with
\* sum the total of the amounts of all transaction records and balanced true
\* exactly when that total is zero; an empty ledger gives (TRUE, 0), and so
\* does a ledger of transfer records only.  A committed deposit, withdrawal,
\* ACH or wire transaction shifts sum by its signed amount, and a committed
\* transfer leaves it as it was.
\* ---------------------------------------------------------------------------
C20_LedgerIntegrity ==
    /\ [](LET r == verify_ledger_integrity(transactions)
              total == SumAmounts(transactions, 1) + SumAmounts(transactions, 2)
          IN /\ r[2] = total
             /\ r[1] <=> total = 0
             /\ transactions = <<>> => r = << TRUE, 0 >>
             /\ (\A i \in DOMAIN transactions :
                     transactions[i].type_name = "transfer") => r = << TRUE, 0 >>)
    /\ [][\A p \in Procs :
            (Finishes(p) /\ proc'[p].result = "ok" /\ proc[p].op \in MoneyOps) =>
                verify_ledger_integrity(transactions')[2] =
                    verify_ledger_integrity(transactions)[2]
                      + Effect(p, 1) + Effect(p, 2)]_vars

\* after a committed transfer and a committed deposit the ledger holds the
\* two transfer records and the deposit, and is reported unbalanced by the
\* amount of the deposit
C20_Witness ==
    /\ Len(transactions) = 3
    /\ \E i, j, k \in DOMAIN transactions :
          /\ transactions[i].type_name = "transfer"
          /\ transactions[j].type_name = "transfer" /\ i # j
          /\ transactions[k].type_name = "deposit"
          /\ verify_ledger_integrity(transactions)
                = << FALSE, transactions[k].amount >>

\* ---------------------------------------------------------------------------
\* C21.  check_account_balance_vs_transactions(account) returns (match,
\* balance, tx_sum) with balance the stored balance of the account, tx_sum
\* the sum of the amounts of its records (0 for none) and match true exactly
\* when the two are equal; it raises only for an account that does not exist,
\* and it changes no state.
\* ---------------------------------------------------------------------------
C21_CheckReportsStoredState ==
    [][\A p \in Procs :
          (proc'[p].op = "check_account_balance_vs_transactions" /\ Steps(p)) =>
              LET a == proc'[p].account_id
              IN /\ UNCHANGED <<accounts, transactions, audit_log, locks>>
                 /\ proc'[p].result = "AccountingValidationError" <=> ~Exists(a)
                 /\ proc'[p].result = "ok" =>
                       proc'[p].returned =
                           << accounts[a].balance = SumAmounts(transactions, a),
                              accounts[a].balance, SumAmounts(transactions, a) >>]_vars

\* ---------------------------------------------------------------------------
\* C22.  A successful open_account inserts one account row with status
\* active, the given initial balance and overdraft limit 0, and writes no
\* transaction record; and for an account that has no records,
\* check_account_balance_vs_transactions returns (balance = 0, balance, 0)
\* with balance the one it was opened with: a mismatch unless that is 0.
\* ---------------------------------------------------------------------------
C22_OpenedWithoutRecord ==
    [][\A p \in Procs :
          /\ (/\ proc[p].pc = "idle" /\ Steps(p)
              /\ proc'[p].op = "open_account" /\ proc'[p].result = "ok") =>
                 LET a == proc'[p].account_id
                 IN /\ ~accounts[a].exists
                    /\ accounts' = [accounts EXCEPT ![a] =
                          [exists |-> TRUE, balance |-> proc'[p].amount,
                           status_name |-> "active", overdraft_limit |-> 0,
                           initial_balance |-> proc'[p].amount]]
                    /\ transactions' = transactions
          /\ (/\ proc[p].pc = "check_account_balance_vs_transactions_sum" /\ Steps(p)
              /\ RecordsOf(proc[p].account_id) = {}) =>
                 LET b == accounts[proc[p].account_id].initial_balance
                 IN /\ proc'[p].result = "ok"
                    /\ proc'[p].returned = << b = 0, b, 0 >>]_vars

\* an account was opened with balance 1 by open_account, and the check of
\* it returned a mismatch of balance 1 against a sum of 0
C22_Witness ==
    \E p, q \in Procs :
        /\ proc[q].op = "open_account" /\ proc[q].result = "ok"
        /\ proc[q].amount = 1
        /\ proc[p].op = "check_account_balance_vs_transactions"
        /\ proc[p].account_id = proc[q].account_id
        /\ proc[p].returned = << FALSE, 1, 0 >>
        /\ transactions = <<>>

\* ---------------------------------------------------------------------------
\* C23.  set_overdraft_limit with a negative limit ends with ValueError and
\* changes nothing; with a limit of zero or more on an existing account it
\* goes on to its UPDATE, which sets overdraft_limit of that account to
\* exactly the limit and nothing else.  No step of set_overdraft_limit or of
\* update_account_status changes a balance or a transaction record.
\* ---------------------------------------------------------------------------
C23_LimitSetAndBalancesKept ==
    [][\A p \in Procs :
          /\ (/\ proc[p].pc = "idle" /\ Steps(p)
              /\ proc'[p].op = "set_overdraft_limit") =>
                 LET c == proc'[p]
                 IN /\ c.amount < 0 =>
                          /\ c.result = "ValueError" /\ c.pc = "idle"
                          /\ accounts' = accounts
                    /\ (c.amount >= 0 /\ Exists(c.account_id)) =>
                          c.pc = "set_overdraft_limit_update"
          /\ (proc[p].pc = "set_overdraft_limit_update" /\ Steps(p)) =>
                 /\ proc[p].amount >= 0
                 /\ accounts' = [accounts EXCEPT
                        ![proc[p].account_id].overdraft_limit = proc[p].amount]
          /\ (/\ Steps(p)
              /\ proc'[p].op \in {"set_overdraft_limit", "update_account_status"}) =>
                 /\ \A a \in AccountIds : accounts'[a].balance = accounts[a].balance
                 /\ transactions' = transactions]_vars

\* one call was refused for its negative limit and another set the limit of
\* an account to 2, whose balance is still the one it was opened with
C23_Witness ==
    \E p, q \in Procs :
        /\ proc[p].op = "set_overdraft_limit" /\ proc[p].amount < 0
        /\ proc[p].result = "ValueError"
        /\ proc[q].op = "set_overdraft_limit" /\ proc[q].result = "ok"
        /\ proc[q].amount = 2
        /\ accounts[proc[q].account_id].overdraft_limit = 2
        /\ accounts[proc[q].account_id].balance
              = accounts[proc[q].account_id].initial_balance
        /\ transactions = <<>>

\* ---------------------------------------------------------------------------
\* C24.  Every step leaves the existing transaction records as they are and
\* in place: the table only grows.  The step that ends a deposit, withdraw,
\* ACH or wire operation with success adds exactly one record, the one that
\* ends a transfer with success exactly two, and every other step none.
\* ---------------------------------------------------------------------------
C24_RecordsOnlyAppended ==
    [][/\ Len(transactions') >= Len(transactions)
       /\ SubSeq(transactions', 1, Len(transactions)) = transactions
       /\ \A p \in Procs :
             (Steps(p) /\ proc'[p].op \in MoneyOps) =>
                 Len(transactions') - Len(transactions) =
                     IF Finishes(p) /\ proc'[p].result = "ok"
                     THEN (IF proc[p].op = "transfer_funds" THEN 2 ELSE 1)
                     ELSE 0]_vars

\* a deposit committed its record, a transfer then committed its two, and
\* the deposit record is still the first of the table
C24_Witness ==
    /\ Len(transactions) = 3
    /\ transactions[1].type_name = "deposit"
    /\ transactions[2].type_name = "transfer"
    /\ transactions[3].type_name = "transfer"
    /\ \E p \in Procs : proc[p].op = "transfer_funds" /\ proc[p].result = "ok"

\* the positions at which an operation has read the status of its accounts
Validated ==
    {"deposit_update", "deposit_record", "withdraw_update", "withdraw_record",
     "transfer_funds_update", "transfer_funds_record",
     "process_wire_transfer_update", "process_wire_transfer_record",
     "process_ach_transaction_update", "process_ach_transaction_record"}

\* ---------------------------------------------------------------------------
\* C25.  A money-moving operation, deposit included, that has read the status
\* of an account for validation and has not yet committed or rolled back
\* holds the row lock of every account it touches: the lock is taken before
\* the read and kept until the end of the unit.
\* ---------------------------------------------------------------------------
C25_LockedBeforeValidated ==
    \A p \in Procs :
        (proc[p].op \in MoneyOps /\ proc[p].pc \in Validated) =>
            /\ locks[proc[p].account_id] = p
            /\ proc[p].op = "transfer_funds" => locks[proc[p].to_account_id] = p

\* ---------------------------------------------------------------------------
\* C26.  Every started money-moving operation eventually ends, committed or
\* rolled back, and a caller whose operation has ended, with success or with
\* an error, holds no row lock.
\* ---------------------------------------------------------------------------
C26_EndsAndReleases ==
    /\ \A p \in Procs : InProgress(p) ~> (proc[p].pc = "idle")
    /\ [](\A p \in Procs :
             proc[p].pc = "idle" => \A a \in AccountIds : locks[a] # p)

\* one operation was refused for lack of funds after it had locked its
\* account, another committed, and every row lock is free
C26_Witness ==
    \E p, q \in Procs :
        /\ proc[p].pc = "idle" /\ proc[p].result = "InsufficientFundsError"
        /\ proc[q].pc = "idle" /\ proc[q].result = "ok"
        /\ proc[q].op \in MoneyOps
        /\ \A a \in AccountIds : locks[a] = "free"

\* ---------------------------------------------------------------------------
\* C27.  get_transaction_history(account, limit, offset) fails with
\* AccountNotFoundError exactly when the account does not exist; otherwise it
\* returns rows of that account only, later timestamp first and, for equal
\* timestamps, greater transaction id first, the k-th returned row being the
\* one at position offset + k of that order over all rows of the account, and
\* as many rows as positions offset+1 .. offset+limit exist.
\* ---------------------------------------------------------------------------
C27_HistoryOrderedAndPaged ==
    \A p \in Procs :
        (proc[p].op = "get_transaction_history" /\ proc[p].pc = "idle") =>
            LET c == proc[p]
                r == c.returned
                own == RecordsOf(c.account_id)
                ts(i) == transactions[i].transaction_timestamp
                ahead(i) == {j \in own : \/ ts(j) > ts(i)
                                         \/ ts(j) = ts(i) /\ j > i}
                rest == Cardinality(own) - c.offset
            IN /\ c.result = "AccountNotFoundError" <=> ~Exists(c.account_id)
               /\ c.result = "ok" <=> Exists(c.account_id)
               /\ c.result = "ok" =>
                     /\ Len(r) = IF rest <= 0 THEN 0
                                 ELSE IF rest < c.limit THEN rest ELSE c.limit
                     /\ \A k \in DOMAIN r :
                           /\ r[k].transaction_id \in own
                           /\ r[k].account_id = c.account_id
                           /\ r[k].transaction_timestamp = ts(r[k].transaction_id)
                           /\ Cardinality(ahead(r[k].transaction_id)) = c.offset + k - 1

\* the second page of size 1 of an account with two rows of one timestamp,
\* in a table that also holds a row of the other account: the row returned
\* is the one of smaller id
C27_Witness ==
    \E p \in Procs :
        /\ proc[p].op = "get_transaction_history" /\ proc[p].result = "ok"
        /\ proc[p].limit = 1 /\ proc[p].offset = 1
        /\ Len(proc[p].returned) = 1
        /\ Cardinality(RecordsOf(proc[p].account_id)) = 2
        /\ Len(transactions) = 3
        /\ \A i, j \in RecordsOf(proc[p].account_id) :
              transactions[i].transaction_timestamp
                = transactions[j].transaction_timestamp
        /\ \A i \in RecordsOf(proc[p].account_id) :
              proc[p].returned[1].transaction_id <= i

\* caller p starts a call of op in this step
Begins(p, op) == proc[p].pc = "idle" /\ Steps(p) /\ proc'[p].op = op

\* ---------------------------------------------------------------------------
\* C28.  transfer_funds with a positive amount and the same account as source
\* and destination ends at once with TransactionError: no row lock is taken
\* and no balance, transaction record or audit entry changes.
\* ---------------------------------------------------------------------------
C28_SameAccountTransferRefused ==
    [][\A p \in Procs :
          (/\ Begins(p, "transfer_funds")
           /\ proc'[p].account_id = proc'[p].to_account_id
           /\ proc'[p].amount > 0) =>
              /\ proc'[p].pc = "idle"
              /\ proc'[p].result = "TransactionError"
              /\ UNCHANGED <<accounts, transactions, audit_log, locks>>]_vars

\* a transfer of 2 from account 1 to account 1 was refused, nothing is
\* locked and nothing was recorded
C28_Witness ==
    \E p \in Procs :
        /\ proc[p].op = "transfer_funds" /\ proc[p].amount = 2
        /\ proc[p].account_id = 1 /\ proc[p].to_account_id = 1
        /\ proc[p].result = "TransactionError"
        /\ \A a \in AccountIds : locks[a] = "free"
        /\ transactions = <<>>
        /\ accounts[1].balance = accounts[1].initial_balance

\* ---------------------------------------------------------------------------
\* C29.  deposit, withdraw, transfer_funds, process_ach_transaction and
\* process_wire_transfer called with an amount of zero or less end at once
\* with InvalidAmountError, whatever their other arguments, without reading
\* or locking an account and without changing any state.
\* ---------------------------------------------------------------------------
C29_InvalidAmountRefusedFirst ==
    [][\A p \in Procs :
          (/\ proc[p].pc = "idle" /\ Steps(p)
           /\ proc'[p].op \in MoneyOps
           /\ proc'[p].amount <= 0) =>
              /\ proc'[p].pc = "idle"
              /\ proc'[p].result = "InvalidAmountError"
              /\ UNCHANGED <<accounts, transactions, audit_log, locks>>]_vars

\* a transfer of 0 from an account to itself and a wire of 0 in a direction
\* that does not exist were both refused for their amount
C29_Witness ==
    \E p, q \in Procs :
        /\ proc[p].op = "transfer_funds" /\ proc[p].amount = 0
        /\ proc[p].account_id = proc[p].to_account_id
        /\ proc[p].result = "InvalidAmountError"
        /\ proc[q].op = "process_wire_transfer" /\ proc[q].amount = 0
        /\ proc[q].arg = "sideways"
        /\ proc[q].result = "InvalidAmountError"
        /\ transactions = <<>>

BeginsMisdirected(p) ==
    \/ /\ Begins(p, "process_wire_transfer")
       /\ proc'[p].arg \notin {"incoming", "outgoing"}
    \/ /\ Begins(p, "process_ach_transaction")
       /\ proc'[p].arg \notin {"credit", "debit"}

\* C31 as stated: every such call ends with ValueError, whatever its amount
C31_BadDirectionIsValueError ==
    [][\A p \in Procs :
          BeginsMisdirected(p) =>
              /\ proc'[p].pc = "idle"
              /\ proc'[p].result = "ValueError"
              /\ UNCHANGED <<accounts, transactions, audit_log, locks>>]_vars

\* ---------------------------------------------------------------------------
\* C31 (as amended).  process_ach_transaction with an ach_type outside
\* {credit, debit} and process_wire_transfer with a direction outside
\* {incoming, outgoing} end at once and change no state: with ValueError when
\* the amount is positive, and with InvalidAmountError when it is not.
\* ---------------------------------------------------------------------------
C31_BadDirectionAfterAmount ==
    [][\A p \in Procs :
          BeginsMisdirected(p) =>
              /\ proc'[p].pc = "idle"
              /\ proc'[p].result = IF proc'[p].amount > 0 THEN "ValueError"
                                   ELSE "InvalidAmountError"
              /\ UNCHANGED <<accounts, transactions, audit_log, locks>>]_vars

\* a wire of 2 in direction "sideways" and an ACH transaction of 2 of type
\* "refund" both ended with ValueError and nothing was recorded or locked
C31_Witness ==
    \E p, q \in Procs :
        /\ proc[p].op = "process_wire_transfer" /\ proc[p].arg = "sideways"
        /\ proc[p].amount = 2 /\ proc[p].result = "ValueError"
        /\ proc[q].op = "process_ach_transaction" /\ proc[q].arg = "refund"
        /\ proc[q].amount = 2 /\ proc[q].result = "ValueError"
        /\ transactions = <<>>
        /\ \A a \in AccountIds : locks[a] = "free"

\* ---------------------------------------------------------------------------
\* C32.  Whatever deposits and other credits run next to
\* update_account_status(id, 'closed'), no committed state has an account
\* closed with a balance other than zero.
\* ---------------------------------------------------------------------------
C32_ClosedHasZeroBalance ==
    \A a \in AccountIds :
        (Exists(a) /\ accounts[a].status_name = "closed") => accounts[a].balance = 0

\* ---------------------------------------------------------------------------
\* C33.  A money-moving operation commits a balance change and a record only
\* for accounts that are active in the committed state it commits into: once
\* an account is frozen or closed, nothing is committed to it until it is
\* active again, not even a deposit that read it as active before.
\* ---------------------------------------------------------------------------
C33_NoCommitToInactive ==
    [][\A p \in Procs :
          (Finishes(p) /\ proc'[p].result = "ok" /\ proc[p].op \in MoneyOps) =>
              \A a \in AccountIds :
                  (\/ accounts'[a].balance # accounts[a].balance
                   \/ \E i \in (Len(transactions) + 1) .. Len(transactions') :
                         transactions'[i].account_id = a)
                  => accounts[a].status_name = "active"]_vars

\* ---------------------------------------------------------------------------
\* C34.  A transfer that is under way has passed the amount test and the
\* same-account test; before its first SELECT ... FOR UPDATE it holds no row
\* lock, before its second it holds at most the lock of the account with the
\* smaller id, and it never holds the lock of the account with the greater
\* id without that of the smaller, whichever of the two is the source.
\* ---------------------------------------------------------------------------
C34_LocksInAscendingOrder ==
    \A p \in Procs :
        (proc[p].op = "transfer_funds" /\ InProgress(p)) =>
            LET lo == Min(proc[p].account_id, proc[p].to_account_id)
                hi == Max(proc[p].account_id, proc[p].to_account_id)
            IN /\ proc[p].amount > 0
               /\ lo # hi
               /\ proc[p].pc = "transfer_funds_select1" =>
                     \A a \in AccountIds : locks[a] # p
               /\ proc[p].pc = "transfer_funds_select2" =>
                     /\ locks[hi] # p
                     /\ accounts[lo].exists => locks[lo] = p
               /\ locks[hi] = p => locks[lo] = p

\* a transfer from account 2 to account 1 holds the row lock of account 1
\* and is about to request that of account 2
C34_Witness ==
    \E p \in Procs :
        /\ proc[p].op = "transfer_funds" /\ proc[p].pc = "transfer_funds_select2"
        /\ proc[p].account_id = 2 /\ proc[p].to_account_id = 1
        /\ locks[1] = p /\ locks[2] # p
        /\ accounts[2].exists

\* the sum of the balances of all accounts in the table accts
TotalBalance(accts) == accts[1].balance + accts[2].balance

\* ---------------------------------------------------------------------------
\* C35.  The step that commits transfer_funds(from, to, amount) lowers the
\* balance of from by exactly amount, raises that of to by exactly amount and
\* leaves the sum of all balances as it was; the step that commits a deposit,
\* withdrawal, ACH or wire operation changes the sum by its signed amount;
\* no other step changes it.
\* ---------------------------------------------------------------------------
C35_TransfersConserveTotal ==
    [][/\ \A p \in Procs :
             (Finishes(p) /\ proc'[p].result = "ok" /\ proc[p].op \in MoneyOps) =>
                 IF proc[p].op = "transfer_funds"
                 THEN /\ accounts'[proc[p].account_id].balance
                           = accounts[proc[p].account_id].balance - proc[p].amount
                      /\ accounts'[proc[p].to_account_id].balance
                           = accounts[proc[p].to_account_id].balance + proc[p].amount
                      /\ TotalBalance(accounts') = TotalBalance(accounts)
                 ELSE TotalBalance(accounts') - TotalBalance(accounts)
                          = IF IsDebit(p) THEN -proc[p].amount ELSE proc[p].amount
       /\ (\A p \in Procs : ~(Finishes(p) /\ proc'[p].result = "ok")) =>
             TotalBalance(accounts') = TotalBalance(accounts)]_vars

\* a transfer of 2 from account 1 (opened with 1) to account 2 (opened with
\* 0) committed: the balances are -1 and 2, and the total is still 1
C35_Witness ==
    \E p \in Procs :
        /\ proc[p].op = "transfer_funds" /\ proc[p].result = "ok"
        /\ proc[p].account_id = 1 /\ proc[p].to_account_id = 2
        /\ proc[p].amount = 2
        /\ accounts[1].balance = -1 /\ accounts[2].balance = 2
        /\ Len(transactions) = 2

\* ---------------------------------------------------------------------------
\* C36.  For an account whose balance equals the sum of its records in every
\* committed state (one opened with balance 0), the check never returns a
\* mismatch, whatever money-moving operations run next to it.
\* ---------------------------------------------------------------------------
C36_NoFalseMismatch ==
    \A p \in Procs :
        (/\ proc[p].op = "check_account_balance_vs_transactions"
         /\ proc[p].result = "ok"
         /\ accounts[proc[p].account_id].initial_balance = 0)
        => proc[p].returned[1]

\* ---------------------------------------------------------------------------
\* C37.  The error of transfer_funds follows a fixed order of its tests: an
\* amount of zero or less gives InvalidAmountError whatever else fails; then
\* equal ids give TransactionError; then a missing source or destination
\* gives AccountNotFoundError whatever the other account's status; then a
\* source that is not active gives AccountNotActiveOrFrozenError naming the
\* origin, also when the destination is inactive or funds are short; then an
\* inactive destination gives AccountNotActiveOrFrozenError naming the
\* destination, also when funds are short; only then short funds give
\* InsufficientFundsError.  withdraw follows the same order over its tests:
\* amount, missing account, status, funds.
\* ---------------------------------------------------------------------------
C37_ErrorPrecedence ==
    [][\A p \in Procs :
          LET c == proc[p]
              from == accounts[c.account_id]
              to == accounts[c.to_account_id]
              short == from.balance - c.amount < -from.overdraft_limit
          IN /\ Begins(p, "transfer_funds") =>
                   /\ proc'[p].amount <= 0 => proc'[p].result = "InvalidAmountError"
                   /\ (/\ proc'[p].amount > 0
                       /\ proc'[p].account_id = proc'[p].to_account_id) =>
                          proc'[p].result = "TransactionError"
             /\ Begins(p, "withdraw") =>
                   (proc'[p].amount <= 0 => proc'[p].result = "InvalidAmountError")
             /\ (c.pc = "transfer_funds_select2" /\ Steps(p)
                     /\ (~from.exists \/ ~to.exists)) =>
                   proc'[p].result = "AccountNotFoundError"
             /\ (c.pc = "transfer_funds_update" /\ Steps(p)) =>
                   /\ from.status_name # "active" =>
                         /\ proc'[p].result = "AccountNotActiveOrFrozenError"
                         /\ proc'[p].detail = "Origin account is not active or is frozen"
                   /\ (from.status_name = "active" /\ to.status_name # "active") =>
                         /\ proc'[p].result = "AccountNotActiveOrFrozenError"
                         /\ proc'[p].detail = "Destination account is not active"
                   /\ (from.status_name = "active" /\ to.status_name = "active"
                         /\ short) =>
                         proc'[p].result = "InsufficientFundsError"
             /\ (c.op = "withdraw" /\ c.pc = "withdraw_select" /\ Steps(p)
                     /\ ~from.exists) =>
                   proc'[p].result = "AccountNotFoundError"
             /\ (c.op = "withdraw" /\ c.pc = "withdraw_update" /\ Steps(p)) =>
                   /\ from.status_name # "active" =>
                         proc'[p].result = "AccountNotActiveOrFrozenError"
                   /\ (from.status_name = "active" /\ short) =>
                         proc'[p].result = "InsufficientFundsError"]_vars

\* a transfer of 2 from a frozen account with balance 1 and no overdraft to
\* a frozen account was refused for its origin, and a transfer of 0 from an
\* account to itself for its amount
C37_Witness ==
    \E p, q \in Procs :
        /\ proc[p].op = "transfer_funds" /\ proc[p].amount = 2
        /\ proc[p].account_id # proc[p].to_account_id
        /\ accounts[proc[p].account_id].status_name = "frozen"
        /\ accounts[proc[p].to_account_id].status_name = "frozen"
        /\ accounts[proc[p].account_id].balance = 1
        /\ accounts[proc[p].account_id].overdraft_limit = 0
        /\ proc[p].result = "AccountNotActiveOrFrozenError"
        /\ proc[p].detail = "Origin account is not active or is frozen"
        /\ proc[q].op = "transfer_funds" /\ proc[q].amount = 0
        /\ proc[q].account_id = proc[q].to_account_id
        /\ proc[q].result = "InvalidAmountError"

\* ---------------------------------------------------------------------------
\* C38.  update_account_status restricts no transition except closing with a
\* balance: called for an existing account with new status active or frozen
\* it proceeds to its UPDATE whatever the account's status and balance,
\* called with closed it proceeds exactly when the balance it reads is zero,
\* and its UPDATE stores the new status whatever the old one was, closed
\* included.
\* ---------------------------------------------------------------------------
C38_NoTransitionRestricted ==
    [][\A p \in Procs :
          /\ (Begins(p, "update_account_status") /\ Exists(proc'[p].account_id)) =>
                LET row == accounts[proc'[p].account_id]
                    proceeds == proc'[p].pc = "update_account_status_update"
                IN /\ proc'[p].arg \in {"active", "frozen"} => proceeds
                   /\ proc'[p].arg = "closed" =>
                         /\ proceeds <=> row.balance = 0
                         /\ ~proceeds => proc'[p].result = "AccountStatusError"
          /\ (proc[p].pc = "update_account_status_update" /\ Steps(p)) =>
                accounts'[proc[p].account_id].status_name = proc[p].arg]_vars

\* an account that update_account_status found closed and has made active,
\* its audit entry still to be written, has taken a deposit since: its
\* balance is positive and recorded
C38_Witness ==
    \E p, q \in Procs :
        /\ proc[p].op = "update_account_status"
        /\ proc[p].pc = "update_account_status_audit"
        /\ proc[p].status_name = "closed" /\ proc[p].arg = "active"
        /\ proc[q].op = "deposit" /\ proc[q].result = "ok"
        /\ proc[q].account_id = proc[p].account_id
        /\ accounts[proc[p].account_id].status_name = "active"
        /\ accounts[proc[p].account_id].balance = proc[q].amount
        /\ \E i \in DOMAIN transactions :
              /\ transactions[i].account_id = proc[p].account_id
              /\ transactions[i].amount = proc[q].amount

====
